---------------------------- MODULE Spec2Model ----------------------------
(***************************************************************************)
(* Sentence extraction of the vocabulary pipeline                          *)
(* (pipeline/scripts/extract_sentences.py), the word-variant generators    *)
(* (extract_sentences.py and vocabulary/scripts/word_forms.py), text       *)
(* cleaning and lemmatization (vocabulary/scripts/extract_words.py) and    *)
(* the filtering and ranking of the vocabulary list (filter_stopwords.py,  *)
(* filter_proper_nouns.py, finalize.py), the step runner                    *)
(* (vocabulary/run_pipeline.py), the batched LLM stages                    *)
(* (add_definitions.py, retry_missing_translations.py) and the Hebrew      *)
(* vocabulary pipeline (hebrew_pipeline.py).                               *)
(*                                                                         *)
(* Python strings are sequences of one-character strings, so that suffix   *)
(* tests, slicing, lower-casing and the tokenising regular expression are  *)
(* computed character by character.  Python dicts that are iterated are    *)
(* sequences of entries in insertion order; dicts that are only looked up  *)
(* are functions.                                                          *)
(***************************************************************************)
EXTENDS Integers, Sequences, FiniteSets, TLC

VARIABLES
    pc,                 \* position in extract_sentences / the variant driver
    vocabulary,         \* input: [metadata, words], words in rank order
    bible,              \* input: books -> chapters -> verses -> text
    all_variants,       \* build_inverted_index: variant -> vocabulary word
    word_to_sentences,  \* build_inverted_index: word -> list of candidates
    all_sentences,      \* build_inverted_index: sentence id -> verse data
    used_sentences,     \* extract_sentences: ids selected so far
    output_sentences,   \* extract_sentences: sentence store of the output
    updated_words,      \* extract_sentences: words with their sentence_ids
    i,                  \* extract_sentences: number of words processed
    sentence_ids,       \* last return value of select_sentences_for_word
    words_with_sentences,
    words_without_sentences,
    updated_vocabulary, \* extract_sentences: second component of the result
    word,               \* variant driver: the word being expanded
    variants,           \* get_word_variants(word) of extract_sentences.py
    wf_variants,        \* get_word_variants(word) of word_forms.py
    variant_order,      \* build_inverted_index: order in which the word set was iterated
    twin,               \* a second run of extract_sentences over the same index
    candidate_list,     \* selection driver: argument candidates
    used_ids,           \* selection driver: argument used_sentences
    selected_ids,       \* selection driver: select_sentences_for_word's return value
    noun_lemma,         \* lemmatizer.lemmatize(word, pos='n')
    verb_lemma,         \* lemmatizer.lemmatize(word, pos='v')
    lemmatized,         \* lemmatize_word's return value
    raw_text,           \* clean_text's argument
    cleaned,            \* clean_text's return value
    clean_tokens,       \* cleaned.split()
    word_counts,        \* extract_words: the Counter, in insertion order
    stopwords,          \* filter_stopwords: the stopword set
    proper_nouns,       \* filter_proper_nouns: the proper-noun set
    word_list,          \* the vocabulary list handed from stage to stage
    numeric,            \* is_numeric_word's return value
    verse_count,        \* extract_words: verses read so far
    numeric_words_skipped,
    verse_words,        \* extract_words: the words of the verse still to be looked at
    lemmatize_calls,    \* extract_words: the arguments of the calls of lemmatize_word
    version,            \* run_pipeline: args.version.lower()
    with_sentences,     \* run_pipeline: args.with_sentences
    steps,              \* run_pipeline: the scripts to run, in order
    started,            \* run_pipeline: the scripts run_step was called for, in order
    returncodes,        \* run_pipeline: result.returncode of each of them
    exit_status,        \* run_pipeline: -1 while running, then the exit status
    success_printed,    \* run_pipeline: "Pipeline completed successfully!" was printed
    futures,            \* add_definitions: batch -> what its worker returned or raised
    collected,          \* add_definitions: the futures as_completed has handed over
    all_definitions,    \* add_definitions: word -> definition
    all_failed,         \* add_definitions: the failed words of the first round
    retry_done,         \* add_definitions: retry batches whose result was merged
    retry_failed,       \* add_definitions: the failed words of the retry round
    failed_words_file,  \* save_failed_words: the list written, <<>> when none was
    missing_ids,        \* retry_missing_translations: ids without a translation
    batches,            \* retry_missing_translations: the batches of the next or current round
    retry_round,        \* retry_missing_translations: rounds begun
    round_futures,      \* retry_missing_translations: batch -> what its worker returned
    round_collected,    \* retry_missing_translations: the futures handed over
    round_translations, \* retry_missing_translations: id -> translation, this round
    failed_ids,         \* retry_missing_translations: the failed ids of this round
    all_translations,   \* retry_missing_translations: id -> translation
    submissions,        \* retry_missing_translations: id -> times it was submitted
    bible_data,         \* hebrew_pipeline: books -> chapters -> verses -> words
    strongs_dict,       \* hebrew_pipeline: the Strong's numbers of the dictionary
    words_data,         \* hebrew_pipeline: extract_words' return value
    filtered_words,     \* hebrew_pipeline: filter_words' return value
    hebrew_vocabulary,  \* hebrew_pipeline: main's vocabulary
    hebrew_sentences    \* hebrew_pipeline: main's sentences

extractVars == <<vocabulary, bible, all_variants, word_to_sentences, all_sentences,
                 used_sentences, output_sentences, updated_words, i, sentence_ids,
                 words_with_sentences, words_without_sentences, updated_vocabulary,
                 variant_order>>
variantVars == <<word, variants, wf_variants>>
selectVars == <<candidate_list, used_ids, selected_ids>>
lemmaVars == <<noun_lemma, verb_lemma, lemmatized>>
cleanVars == <<raw_text, cleaned, clean_tokens>>
rankVars == <<word_counts, stopwords, proper_nouns, word_list>>

numericVars == <<numeric>>
countVars == <<verse_count, numeric_words_skipped, verse_words, lemmatize_calls>>
runVars == <<version, with_sentences, steps, started, returncodes, exit_status,
             success_printed>>
defVars == <<futures, collected, all_definitions, all_failed, retry_done, retry_failed,
             failed_words_file>>
retryVars == <<missing_ids, batches, retry_round, round_futures, round_collected,
               round_translations, failed_ids, all_translations, submissions>>
hebrewVars == <<bible_data, strongs_dict, words_data, filtered_words, hebrew_vocabulary,
                hebrew_sentences>>
stageVars == <<numericVars, countVars, runVars, defVars, retryVars, hebrewVars>>

\* what a stage leaves alone of the other stages
numericOthers == <<countVars, runVars, defVars, retryVars, hebrewVars>>
countOthers == <<numericVars, runVars, defVars, retryVars, hebrewVars>>
runOthers == <<numericVars, countVars, defVars, retryVars, hebrewVars>>
defOthers == <<numericVars, countVars, runVars, retryVars, hebrewVars>>
retryOthers == <<numericVars, countVars, runVars, defVars, hebrewVars>>
hebrewOthers == <<numericVars, countVars, runVars, defVars, retryVars>>

vars == <<pc, extractVars, twin, variantVars, selectVars, lemmaVars, cleanVars, rankVars,
          stageVars>>

-----------------------------------------------------------------------------
(* Program constants                                                       *)

MIN_SENTENCES_PER_WORD == 2
MAX_SENTENCES_PER_WORD == 5
MAX_SENTENCE_LENGTH == 200
MIN_SENTENCE_LENGTH == 30
MIN_WORD_LENGTH == 2
MIN_FREQUENCY == 2
BATCH_SIZE == 50
RETRY_BATCH_SIZE == 20
max_retries == 3

-----------------------------------------------------------------------------
(* Bounds of the model                                                     *)

\* most verses of a corpus of the selection family
MaxVerses == 6
\* most entries of a vocabulary list
MaxWords == 2
\* longest word the variant driver draws from the alphabet
MaxWordLen == 3
\* distinct words in the Counter of the vocabulary stages
MaxCountWords == 3
\* verses of a corpus that two runs work on side by side
MaxPairVerses == 2
\* verses in the candidate list of the selection driver
MaxCands == 6
\* pieces a text of the text driver is put together from
MaxPieces == 3
\* longest sequence of Roman-numeral letters the numeric driver classifies
MaxNumeralLen == 4
\* most verses of a corpus extract_words counts the words of
MaxCountVerses == 2
\* largest return code of a pipeline step
MaxReturnCode == 5
\* a word list for add_definitions fills up to MaxFullBatches batches and
\* has up to MaxTailWords words more
MaxFullBatches == 1
MaxTailWords == 1
\* the missing ids of retry_missing_translations fill a batch and are up to
\* MaxExtraIds more
MaxExtraIds == 1
\* most verses of a book of the Hebrew corpus
MaxHebrewVerses == 2

-----------------------------------------------------------------------------
(* String primitives                                                       *)

Range(s) == { s[k] : k \in 1..Len(s) }

\* str.endswith(suf)
EndsWith(w, suf) ==
    /\ Len(w) >= Len(suf)
    /\ SubSeq(w, Len(w) - Len(suf) + 1, Len(w)) = suf

\* w[:-n]
DropLast(w, n) == SubSeq(w, 1, Len(w) - n)

UpperCase == <<"A","B","C","D","E","F","G","H","I","J","K","L","M",
               "N","O","P","Q","R","S","T","U","V","W","X","Y","Z">>
LowerCase == <<"a","b","c","d","e","f","g","h","i","j","k","l","m",
               "n","o","p","q","r","s","t","u","v","w","x","y","z">>
Digits == {"0","1","2","3","4","5","6","7","8","9"}

UpperSet == Range(UpperCase)
LetterSet == Range(LowerCase)
LowerOf == [c \in UpperSet |-> LowerCase[CHOOSE k \in 1..26 : UpperCase[k] = c]]

\* the concatenation of a sequence of sequences
RECURSIVE Flatten(_)
Flatten(bs) == IF bs = <<>> THEN <<>> ELSE Head(bs) \o Flatten(Tail(bs))

\* str.lower(), one character
LowerChar(c) == IF c \in UpperSet THEN LowerOf[c] ELSE c

\* str.lower()
Lower(s) == [k \in 1..Len(s) |-> LowerChar(s[k])]

\* str.replace(" ", "-")
ReplaceSpace(s) == [k \in 1..Len(s) |-> IF s[k] = " " THEN "-" ELSE s[k]]

\* the characters "aeiou" of the tests  word[-2] not in "aeiou"
Vowels == {"a", "e", "i", "o", "u"}

\* word.endswith("y") and len(word) > 1 and word[-2] not in "aeiou"
ConsonantY(w) ==
    /\ EndsWith(w, <<"y">>)
    /\ Len(w) > 1
    /\ w[Len(w) - 1] \notin Vowels

\* word.endswith(("s", "x", "z", "ch", "sh"))
SibilantEnd(w) ==
    \/ EndsWith(w, <<"s">>)
    \/ EndsWith(w, <<"x">>)
    \/ EndsWith(w, <<"z">>)
    \/ EndsWith(w, <<"c", "h">>)
    \/ EndsWith(w, <<"s", "h">>)

-----------------------------------------------------------------------------
(* get_word_variants of pipeline/scripts/extract_sentences.py              *)

\* mutant: the plural always appends "s"
PluralFormsAppendS(w) ==
    IF EndsWith(w, <<"s">>) THEN {} ELSE {w \o <<"s">>}

PluralForms(w) ==
    IF EndsWith(w, <<"s">>) THEN {}
    ELSE IF SibilantEnd(w) THEN {w \o <<"e", "s">>}
    ELSE IF ConsonantY(w) THEN {DropLast(w, 1) \o <<"i", "e", "s">>}
    ELSE {w \o <<"s">>}
\* mutant: the past tense always appends "ed"
PastFormsAlwaysEd(w) ==
    IF EndsWith(w, <<"e", "d">>) THEN {} ELSE {w \o <<"e", "d">>}


PastForms(w) ==
    IF EndsWith(w, <<"e", "d">>) THEN {}
    ELSE IF EndsWith(w, <<"e">>) THEN {w \o <<"d">>}
    ELSE IF ConsonantY(w) THEN {DropLast(w, 1) \o <<"i", "e", "d">>}
    ELSE {w \o <<"e", "d">>}

ProgressiveForms(w) ==
    IF EndsWith(w, <<"i", "n", "g">>) THEN {}
    ELSE IF EndsWith(w, <<"e">>) /\ ~EndsWith(w, <<"e", "e">>)
         THEN {DropLast(w, 1) \o <<"i", "n", "g">>}
    ELSE IF EndsWith(w, <<"i", "e">>) THEN {DropLast(w, 2) \o <<"y", "i", "n", "g">>}
    ELSE {w \o <<"i", "n", "g">>}
\* mutant: the guard for very short words is missing
get_word_variants_unguarded(w) ==
    {w} \cup PluralForms(w) \cup PastForms(w) \cup ProgressiveForms(w)


get_word_variants(w) ==
    IF Len(w) < 2 THEN {w}
    ELSE {w} \cup PluralForms(w) \cup PastForms(w) \cup ProgressiveForms(w)

-----------------------------------------------------------------------------
(* get_word_variants of pipeline/vocabulary/scripts/word_forms.py          *)

IRREGULAR_VERBS ==
   << <<<<"b", "e">>, <<<<"w", "a", "s">>, <<"w", "e", "r", "e">>, <<"b", "e", "e", "n">>, <<"b", "e", "i", "n", "g">>, <<"a", "m">>, <<"i", "s">>, <<"a", "r", "e">>>>>>,
      <<<<"h", "a", "v", "e">>, <<<<"h", "a", "s">>, <<"h", "a", "d">>, <<"h", "a", "v", "i", "n", "g">>>>>>,
      <<<<"d", "o">>, <<<<"d", "o", "e", "s">>, <<"d", "i", "d">>, <<"d", "o", "n", "e">>, <<"d", "o", "i", "n", "g">>>>>>,
      <<<<"g", "o">>, <<<<"g", "o", "e", "s">>, <<"w", "e", "n", "t">>, <<"g", "o", "n", "e">>, <<"g", "o", "i", "n", "g">>>>>>,
      <<<<"s", "a", "y">>, <<<<"s", "a", "y", "s">>, <<"s", "a", "i", "d">>, <<"s", "a", "y", "i", "n", "g">>>>>>,
      <<<<"m", "a", "k", "e">>, <<<<"m", "a", "k", "e", "s">>, <<"m", "a", "d", "e">>, <<"m", "a", "k", "i", "n", "g">>>>>>,
      <<<<"t", "a", "k", "e">>, <<<<"t", "a", "k", "e", "s">>, <<"t", "o", "o", "k">>, <<"t", "a", "k", "e", "n">>, <<"t", "a", "k", "i", "n", "g">>>>>>,
      <<<<"c", "o", "m", "e">>, <<<<"c", "o", "m", "e", "s">>, <<"c", "a", "m", "e">>, <<"c", "o", "m", "i", "n", "g">>>>>>,
      <<<<"s", "e", "e">>, <<<<"s", "e", "e", "s">>, <<"s", "a", "w">>, <<"s", "e", "e", "n">>, <<"s", "e", "e", "i", "n", "g">>>>>>,
      <<<<"k", "n", "o", "w">>, <<<<"k", "n", "o", "w", "s">>, <<"k", "n", "e", "w">>, <<"k", "n", "o", "w", "n">>, <<"k", "n", "o", "w", "i", "n", "g">>>>>>,
      <<<<"g", "i", "v", "e">>, <<<<"g", "i", "v", "e", "s">>, <<"g", "a", "v", "e">>, <<"g", "i", "v", "e", "n">>, <<"g", "i", "v", "i", "n", "g">>>>>>,
      <<<<"t", "h", "i", "n", "k">>, <<<<"t", "h", "i", "n", "k", "s">>, <<"t", "h", "o", "u", "g", "h", "t">>, <<"t", "h", "i", "n", "k", "i", "n", "g">>>>>>,
      <<<<"t", "e", "l", "l">>, <<<<"t", "e", "l", "l", "s">>, <<"t", "o", "l", "d">>, <<"t", "e", "l", "l", "i", "n", "g">>>>>>,
      <<<<"b", "e", "c", "o", "m", "e">>, <<<<"b", "e", "c", "o", "m", "e", "s">>, <<"b", "e", "c", "a", "m", "e">>, <<"b", "e", "c", "o", "m", "i", "n", "g">>>>>>,
      <<<<"l", "e", "a", "v", "e">>, <<<<"l", "e", "a", "v", "e", "s">>, <<"l", "e", "f", "t">>, <<"l", "e", "a", "v", "i", "n", "g">>>>>>,
      <<<<"p", "u", "t">>, <<<<"p", "u", "t", "s">>, <<"p", "u", "t", "t", "i", "n", "g">>>>>>,
      <<<<"b", "r", "i", "n", "g">>, <<<<"b", "r", "i", "n", "g", "s">>, <<"b", "r", "o", "u", "g", "h", "t">>, <<"b", "r", "i", "n", "g", "i", "n", "g">>>>>>,
      <<<<"k", "e", "e", "p">>, <<<<"k", "e", "e", "p", "s">>, <<"k", "e", "p", "t">>, <<"k", "e", "e", "p", "i", "n", "g">>>>>>,
      <<<<"h", "o", "l", "d">>, <<<<"h", "o", "l", "d", "s">>, <<"h", "e", "l", "d">>, <<"h", "o", "l", "d", "i", "n", "g">>>>>>,
      <<<<"s", "t", "a", "n", "d">>, <<<<"s", "t", "a", "n", "d", "s">>, <<"s", "t", "o", "o", "d">>, <<"s", "t", "a", "n", "d", "i", "n", "g">>>>>>,
      <<<<"h", "e", "a", "r">>, <<<<"h", "e", "a", "r", "s">>, <<"h", "e", "a", "r", "d">>, <<"h", "e", "a", "r", "i", "n", "g">>>>>>,
      <<<<"l", "e", "t">>, <<<<"l", "e", "t", "s">>, <<"l", "e", "t", "t", "i", "n", "g">>>>>>,
      <<<<"m", "e", "a", "n">>, <<<<"m", "e", "a", "n", "s">>, <<"m", "e", "a", "n", "t">>, <<"m", "e", "a", "n", "i", "n", "g">>>>>>,
      <<<<"s", "e", "t">>, <<<<"s", "e", "t", "s">>, <<"s", "e", "t", "t", "i", "n", "g">>>>>>,
      <<<<"m", "e", "e", "t">>, <<<<"m", "e", "e", "t", "s">>, <<"m", "e", "t">>, <<"m", "e", "e", "t", "i", "n", "g">>>>>>,
      <<<<"r", "u", "n">>, <<<<"r", "u", "n", "s">>, <<"r", "a", "n">>, <<"r", "u", "n", "n", "i", "n", "g">>>>>>,
      <<<<"p", "a", "y">>, <<<<"p", "a", "y", "s">>, <<"p", "a", "i", "d">>, <<"p", "a", "y", "i", "n", "g">>>>>>,
      <<<<"s", "i", "t">>, <<<<"s", "i", "t", "s">>, <<"s", "a", "t">>, <<"s", "i", "t", "t", "i", "n", "g">>>>>>,
      <<<<"s", "e", "n", "d">>, <<<<"s", "e", "n", "d", "s">>, <<"s", "e", "n", "t">>, <<"s", "e", "n", "d", "i", "n", "g">>>>>>,
      <<<<"f", "a", "l", "l">>, <<<<"f", "a", "l", "l", "s">>, <<"f", "e", "l", "l">>, <<"f", "a", "l", "l", "e", "n">>, <<"f", "a", "l", "l", "i", "n", "g">>>>>>,
      <<<<"r", "e", "a", "d">>, <<<<"r", "e", "a", "d", "s">>, <<"r", "e", "a", "d", "i", "n", "g">>>>>>,
      <<<<"g", "r", "o", "w">>, <<<<"g", "r", "o", "w", "s">>, <<"g", "r", "e", "w">>, <<"g", "r", "o", "w", "n">>, <<"g", "r", "o", "w", "i", "n", "g">>>>>>,
      <<<<"l", "o", "s", "e">>, <<<<"l", "o", "s", "e", "s">>, <<"l", "o", "s", "t">>, <<"l", "o", "s", "i", "n", "g">>>>>>,
      <<<<"s", "p", "e", "n", "d">>, <<<<"s", "p", "e", "n", "d", "s">>, <<"s", "p", "e", "n", "t">>, <<"s", "p", "e", "n", "d", "i", "n", "g">>>>>>,
      <<<<"c", "u", "t">>, <<<<"c", "u", "t", "s">>, <<"c", "u", "t", "t", "i", "n", "g">>>>>>,
      <<<<"b", "u", "i", "l", "d">>, <<<<"b", "u", "i", "l", "d", "s">>, <<"b", "u", "i", "l", "t">>, <<"b", "u", "i", "l", "d", "i", "n", "g">>>>>>,
      <<<<"r", "i", "d", "e">>, <<<<"r", "i", "d", "e", "s">>, <<"r", "o", "d", "e">>, <<"r", "i", "d", "d", "e", "n">>, <<"r", "i", "d", "i", "n", "g">>>>>>,
      <<<<"h", "i", "d", "e">>, <<<<"h", "i", "d", "e", "s">>, <<"h", "i", "d">>, <<"h", "i", "d", "d", "e", "n">>, <<"h", "i", "d", "i", "n", "g">>>>>>,
      <<<<"b", "i", "t", "e">>, <<<<"b", "i", "t", "e", "s">>, <<"b", "i", "t">>, <<"b", "i", "t", "t", "e", "n">>, <<"b", "i", "t", "i", "n", "g">>>>>>,
      <<<<"w", "r", "i", "t", "e">>, <<<<"w", "r", "i", "t", "e", "s">>, <<"w", "r", "o", "t", "e">>, <<"w", "r", "i", "t", "t", "e", "n">>, <<"w", "r", "i", "t", "i", "n", "g">>>>>>,
      <<<<"d", "r", "i", "v", "e">>, <<<<"d", "r", "i", "v", "e", "s">>, <<"d", "r", "o", "v", "e">>, <<"d", "r", "i", "v", "e", "n">>, <<"d", "r", "i", "v", "i", "n", "g">>>>>>,
      <<<<"r", "i", "s", "e">>, <<<<"r", "i", "s", "e", "s">>, <<"r", "o", "s", "e">>, <<"r", "i", "s", "e", "n">>, <<"r", "i", "s", "i", "n", "g">>>>>>,
      <<<<"c", "h", "o", "o", "s", "e">>, <<<<"c", "h", "o", "o", "s", "e", "s">>, <<"c", "h", "o", "s", "e">>, <<"c", "h", "o", "s", "e", "n">>, <<"c", "h", "o", "o", "s", "i", "n", "g">>>>>>,
      <<<<"f", "r", "e", "e", "z", "e">>, <<<<"f", "r", "e", "e", "z", "e", "s">>, <<"f", "r", "o", "z", "e">>, <<"f", "r", "o", "z", "e", "n">>, <<"f", "r", "e", "e", "z", "i", "n", "g">>>>>>,
      <<<<"s", "p", "e", "a", "k">>, <<<<"s", "p", "e", "a", "k", "s">>, <<"s", "p", "o", "k", "e">>, <<"s", "p", "o", "k", "e", "n">>, <<"s", "p", "e", "a", "k", "i", "n", "g">>>>>>,
      <<<<"s", "t", "e", "a", "l">>, <<<<"s", "t", "e", "a", "l", "s">>, <<"s", "t", "o", "l", "e">>, <<"s", "t", "o", "l", "e", "n">>, <<"s", "t", "e", "a", "l", "i", "n", "g">>>>>>,
      <<<<"b", "r", "e", "a", "k">>, <<<<"b", "r", "e", "a", "k", "s">>, <<"b", "r", "o", "k", "e">>, <<"b", "r", "o", "k", "e", "n">>, <<"b", "r", "e", "a", "k", "i", "n", "g">>>>>>,
      <<<<"w", "a", "k", "e">>, <<<<"w", "a", "k", "e", "s">>, <<"w", "o", "k", "e">>, <<"w", "o", "k", "e", "n">>, <<"w", "a", "k", "i", "n", "g">>>>>>,
      <<<<"f", "o", "r", "g", "e", "t">>, <<<<"f", "o", "r", "g", "e", "t", "s">>, <<"f", "o", "r", "g", "o", "t">>, <<"f", "o", "r", "g", "o", "t", "t", "e", "n">>, <<"f", "o", "r", "g", "e", "t", "t", "i", "n", "g">>>>>>,
      <<<<"g", "e", "t">>, <<<<"g", "e", "t", "s">>, <<"g", "o", "t">>, <<"g", "o", "t", "t", "e", "n">>, <<"g", "e", "t", "t", "i", "n", "g">>>>>>,
      <<<<"b", "e", "g", "i", "n">>, <<<<"b", "e", "g", "i", "n", "s">>, <<"b", "e", "g", "a", "n">>, <<"b", "e", "g", "u", "n">>, <<"b", "e", "g", "i", "n", "n", "i", "n", "g">>>>>>,
      <<<<"s", "i", "n", "g">>, <<<<"s", "i", "n", "g", "s">>, <<"s", "a", "n", "g">>, <<"s", "u", "n", "g">>, <<"s", "i", "n", "g", "i", "n", "g">>>>>>,
      <<<<"r", "i", "n", "g">>, <<<<"r", "i", "n", "g", "s">>, <<"r", "a", "n", "g">>, <<"r", "u", "n", "g">>, <<"r", "i", "n", "g", "i", "n", "g">>>>>>,
      <<<<"d", "r", "i", "n", "k">>, <<<<"d", "r", "i", "n", "k", "s">>, <<"d", "r", "a", "n", "k">>, <<"d", "r", "u", "n", "k">>, <<"d", "r", "i", "n", "k", "i", "n", "g">>>>>>,
      <<<<"s", "w", "i", "m">>, <<<<"s", "w", "i", "m", "s">>, <<"s", "w", "a", "m">>, <<"s", "w", "u", "m">>, <<"s", "w", "i", "m", "m", "i", "n", "g">>>>>>,
      <<<<"s", "i", "n", "k">>, <<<<"s", "i", "n", "k", "s">>, <<"s", "a", "n", "k">>, <<"s", "u", "n", "k">>, <<"s", "i", "n", "k", "i", "n", "g">>>>>>,
      <<<<"s", "h", "r", "i", "n", "k">>, <<<<"s", "h", "r", "i", "n", "k", "s">>, <<"s", "h", "r", "a", "n", "k">>, <<"s", "h", "r", "u", "n", "k">>, <<"s", "h", "r", "i", "n", "k", "i", "n", "g">>>>>>,
      <<<<"s", "t", "i", "n", "k">>, <<<<"s", "t", "i", "n", "k", "s">>, <<"s", "t", "a", "n", "k">>, <<"s", "t", "u", "n", "k">>, <<"s", "t", "i", "n", "k", "i", "n", "g">>>>>>,
      <<<<"s", "p", "r", "i", "n", "g">>, <<<<"s", "p", "r", "i", "n", "g", "s">>, <<"s", "p", "r", "a", "n", "g">>, <<"s", "p", "r", "u", "n", "g">>, <<"s", "p", "r", "i", "n", "g", "i", "n", "g">>>>>>,
      <<<<"s", "t", "r", "i", "n", "g">>, <<<<"s", "t", "r", "i", "n", "g", "s">>, <<"s", "t", "r", "u", "n", "g">>, <<"s", "t", "r", "i", "n", "g", "i", "n", "g">>>>>>,
      <<<<"w", "r", "i", "n", "g">>, <<<<"w", "r", "i", "n", "g", "s">>, <<"w", "r", "u", "n", "g">>, <<"w", "r", "i", "n", "g", "i", "n", "g">>>>>>,
      <<<<"c", "l", "i", "n", "g">>, <<<<"c", "l", "i", "n", "g", "s">>, <<"c", "l", "u", "n", "g">>, <<"c", "l", "i", "n", "g", "i", "n", "g">>>>>>,
      <<<<"f", "l", "i", "n", "g">>, <<<<"f", "l", "i", "n", "g", "s">>, <<"f", "l", "u", "n", "g">>, <<"f", "l", "i", "n", "g", "i", "n", "g">>>>>>,
      <<<<"s", "l", "i", "n", "g">>, <<<<"s", "l", "i", "n", "g", "s">>, <<"s", "l", "u", "n", "g">>, <<"s", "l", "i", "n", "g", "i", "n", "g">>>>>>,
      <<<<"s", "w", "i", "n", "g">>, <<<<"s", "w", "i", "n", "g", "s">>, <<"s", "w", "u", "n", "g">>, <<"s", "w", "i", "n", "g", "i", "n", "g">>>>>>,
      <<<<"h", "a", "n", "g">>, <<<<"h", "a", "n", "g", "s">>, <<"h", "u", "n", "g">>, <<"h", "a", "n", "g", "i", "n", "g">>>>>>,
      <<<<"b", "i", "n", "d">>, <<<<"b", "i", "n", "d", "s">>, <<"b", "o", "u", "n", "d">>, <<"b", "i", "n", "d", "i", "n", "g">>>>>>,
      <<<<"f", "i", "n", "d">>, <<<<"f", "i", "n", "d", "s">>, <<"f", "o", "u", "n", "d">>, <<"f", "i", "n", "d", "i", "n", "g">>>>>>,
      <<<<"w", "i", "n", "d">>, <<<<"w", "i", "n", "d", "s">>, <<"w", "o", "u", "n", "d">>, <<"w", "i", "n", "d", "i", "n", "g">>>>>>,
      <<<<"g", "r", "o", "u", "n", "d">>, <<<<"g", "r", "o", "u", "n", "d", "s">>, <<"g", "r", "o", "u", "n", "d", "e", "d">>, <<"g", "r", "o", "u", "n", "d", "i", "n", "g">>>>>> >>

\* IRREGULAR_VERBS[word] when word in IRREGULAR_VERBS, else nothing
IrregularForms(w) ==
    UNION { Range(IRREGULAR_VERBS[k][2]) :
            k \in { j \in 1..Len(IRREGULAR_VERBS) : IRREGULAR_VERBS[j][1] = w } }

WfPluralForms(w) ==
    IF SibilantEnd(w) THEN {w \o <<"e", "s">>}
    ELSE IF ConsonantY(w) THEN {DropLast(w, 1) \o <<"i", "e", "s">>}
    ELSE {w \o <<"s">>}

WfPastForms(w) ==
    IF EndsWith(w, <<"e", "d">>) THEN {}
    ELSE IF EndsWith(w, <<"e">>) THEN {w \o <<"d">>}
    ELSE IF ConsonantY(w) THEN {DropLast(w, 1) \o <<"i", "e", "d">>}
    ELSE {w \o <<"e", "d">>}

WfProgressiveForms(w) ==
    IF EndsWith(w, <<"e">>) /\ ~EndsWith(w, <<"e", "e">>)
         THEN {DropLast(w, 1) \o <<"i", "n", "g">>}
    ELSE IF EndsWith(w, <<"i", "e">>) THEN {DropLast(w, 2) \o <<"y", "i", "n", "g">>}
    ELSE IF ~EndsWith(w, <<"i", "n", "g">>) THEN {w \o <<"i", "n", "g">>}
    ELSE {}

word_forms_get_word_variants(w) ==
    IF Len(w) < 2 THEN {w}
    ELSE {w} \cup IrregularForms(w) \cup WfPluralForms(w) \cup WfPastForms(w)
             \cup WfProgressiveForms(w)

-----------------------------------------------------------------------------
(* Inputs                                                                  *)

king    == <<"k", "i", "n", "g">>
kings   == <<"k", "i", "n", "g", "s">>
create  == <<"c", "r", "e", "a", "t", "e">>
created == <<"c", "r", "e", "a", "t", "e", "d">>

Genesis   == <<"G", "e", "n", "e", "s", "i", "s">>
FirstJohn == <<"1", " ", "J", "o", "h", "n">>

\* the verse of the concrete scenario
GenesisText ==
   <<
      "I", "n", " ", "t", "h", "e", " ", "b", "e", "g", "i", "n", "n", "i", "n", "g",
      " ", "G", "o", "d", " ", "c", "r", "e", "a", "t", "e", "d", " ", "t", "h", "e",
      " ", "h", "e", "a", "v", "e", "n", "s", " ", "a", "n", "d", " ", "t", "h", "e",
      " ", "e", "a", "r", "t", "h", " ", "m", "o", "s", "t", " ", "g", "l", "o", "r",
      "i", "o", "u", "s", "l", "y", " ", "f", "o", "r", "e", "v", "e", "r"
   >>

RECURSIVE JoinWords(_)
JoinWords(ws) ==
    IF ws = <<>> THEN <<>>
    ELSE IF Len(ws) = 1 THEN ws[1]
    ELSE ws[1] \o <<" ">> \o JoinWords(Tail(ws))

\* a verse text of exactly n characters: the words, then full stops
VerseText(ws, n) == JoinWords(ws) \o [k \in 1..(n - Len(JoinWords(ws))) |-> "."]

\* the decimal numeral of n, for n in 1..9
Numeral(n) == << CHOOSE d \in Digits :
                   d = <<"1","2","3","4","5","6","7","8","9">>[n] >>

\* verses "1", "2", ... of one chapter, with the texts given
NumberedVerses(texts) == [k \in 1..Len(texts) |-> [verse |-> Numeral(k), text |-> texts[k]]]

OneChapterBook(book, texts) ==
    [book |-> book,
     chapters |-> <<[chapter |-> <<"1">>, verses |-> NumberedVerses(texts)]>>]

SeqsUpTo(S, n) == UNION { [1..m -> S] : m \in 0..n }

\* Selection family: two books of one chapter each, every verse within the
\* length bounds; a verse holds both words or only the plural.
SelectionTexts ==
    { VerseText(<<king, kings>>, MIN_SENTENCE_LENGTH + 1),
      VerseText(<<kings>>, MIN_SENTENCE_LENGTH) }

SelectionCorporaUpTo(n) ==
    { <<>> }
    \cup { <<OneChapterBook(b, ts)>> :
             b \in {Genesis, FirstJohn},
             ts \in SeqsUpTo(SelectionTexts, n) \ {<<>>} }
    \cup UNION { { <<OneChapterBook(bs[1], ts1), OneChapterBook(bs[2], ts2)>> :
                     bs \in {<<Genesis, FirstJohn>>, <<FirstJohn, Genesis>>},
                     ts2 \in SeqsUpTo(SelectionTexts, n - Len(ts1)) \ {<<>>} } :
                 ts1 \in SeqsUpTo(SelectionTexts, n - 1) \ {<<>>} }

SelectionCorpora == SelectionCorporaUpTo(MaxVerses)

\* Pair family: the corpora of the selection family with fewer verses
PairCorpora == SelectionCorporaUpTo(MaxPairVerses)

\* Inflection family: one or two verses holding an inflected form only;
\* "used" is generated by "us" and by "use", "rode" is listed for "ride" in
\* IRREGULAR_VERBS.
us == <<"u", "s">>
use == <<"u", "s", "e">>
used_form == <<"u", "s", "e", "d">>
ride == <<"r", "i", "d", "e">>
rode == <<"r", "o", "d", "e">>
InflectionTexts ==
    { VerseText(<<used_form>>, MIN_SENTENCE_LENGTH), VerseText(<<rode>>, MIN_SENTENCE_LENGTH) }
InflectionCorpora ==
    { <<OneChapterBook(Genesis, ts)>> :
        ts \in SeqsUpTo(InflectionTexts, MIN_SENTENCES_PER_WORD) \ {<<>>} }

\* Index family: one or two verses whose lengths straddle both length bounds;
\* the words appear capitalised, next to a digit, or inflected.
IndexLengths ==
    { MIN_SENTENCE_LENGTH - 1, MIN_SENTENCE_LENGTH,
      MAX_SENTENCE_LENGTH, MAX_SENTENCE_LENGTH + 1 }

IndexTexts ==
    { VerseText(ws, n) :
        ws \in { << <<"K", "i", "n", "g">> >>,
                 << kings, <<"k", "i", "n", "g", "1">> >> },
        n \in IndexLengths }
    \cup { GenesisText }

IndexCorpora ==
    { <<OneChapterBook(Genesis, <<t>>)>> : t \in IndexTexts }
    \cup { <<OneChapterBook(Genesis, <<t1, t2>>)>> : t1, t2 \in IndexTexts }
    \cup { <<[book |-> Genesis,
              chapters |-> <<[chapter |-> <<"1">>, verses |-> NumberedVerses(<<t1>>)],
                             [chapter |-> <<"2">>, verses |-> NumberedVerses(<<t2>>)]>>]>> :
             t1, t2 \in IndexTexts }
    \cup { <<OneChapterBook(FirstJohn, <<t1>>), OneChapterBook(Genesis, <<t2>>)>> :
             t1, t2 \in IndexTexts }

\* the corpus of the concrete scenario: the single verse Genesis 1:1
GenesisCorpus == <<OneChapterBook(Genesis, <<GenesisText>>)>>

\* vocabulary lists: distinct words, ranked 1, 2, ... in list order
WordLists(S) ==
    { ws \in SeqsUpTo(S, MaxWords) : \A a, b \in 1..Len(ws) : a # b => ws[a] # ws[b] }

Vocabulary(ws) ==
    [metadata |-> [total_words |-> Len(ws)],
     words |-> [k \in 1..Len(ws) |-> [word |-> ws[k], rank |-> k]]]

\* the words the variant driver expands
Alphabet == {"a", "c", "d", "e", "g", "h", "i", "n", "s", "x", "y", "z"}
SampleWords == { king, kings, create, created } \cup { IRREGULAR_VERBS[k][1] : k \in 1..Len(IRREGULAR_VERBS) }
DriverWords == SeqsUpTo(Alphabet, MaxWordLen) \cup SampleWords

-----------------------------------------------------------------------------
(* generate_sentence_id and extract_words_from_text                        *)

generate_sentence_id(book, chapter, verse) ==
    ReplaceSpace(Lower(book)) \o <<"-">> \o chapter \o <<"-">> \o verse

\* f"{book} {chapter_num}:{verse_num}"
sentence_ref(book, chapter, verse) ==
    book \o <<" ">> \o chapter \o <<":">> \o verse

IsLetter(c) == c \in LetterSet \/ c \in UpperSet
\* \w of the regular expression (the characters the model's texts use)
\* "HALF" and "QUARTER" are U+00BD and U+00BC, numeric characters that \w
\* matches
FractionGlyphs == {"HALF", "QUARTER"}
IsWordChar(c) == IsLetter(c) \/ c \in Digits \/ c = "_" \/ c \in FractionGlyphs

\* re.findall(r"\b[a-zA-Z]+\b", t): a match starts at a word boundary, takes
\* letters and must end at a word boundary, so the matches are the maximal
\* runs of \w characters that consist of letters only.
FindWords(t) ==
    LET starts == { a \in 1..Len(t) :
                      IsWordChar(t[a]) /\ (a = 1 \/ ~IsWordChar(t[a - 1])) }
        ends   == { b \in 1..Len(t) :
                      IsWordChar(t[b]) /\ (b = Len(t) \/ ~IsWordChar(t[b + 1])) }
        end(a) == CHOOSE b \in ends :
                      b >= a /\ \A c \in ends : c >= a => b <= c
        runs   == { SubSeq(t, a, end(a)) : a \in starts }
    IN { r \in runs : \A k \in 1..Len(r) : IsLetter(r[k]) }

\* the verse texts of the input families, tokenised once
KnownTexts == SelectionTexts \cup IndexTexts \cup InflectionTexts
KnownWords == [t \in KnownTexts |-> FindWords(Lower(t))]

extract_words_from_text(text) ==
    IF text \in KnownTexts THEN KnownWords[text] ELSE FindWords(Lower(text))

-----------------------------------------------------------------------------
(* is_numeric_word of pipeline/vocabulary/scripts/extract_words.py         *)

\* str.isdigit
isdigit(w) == Len(w) > 0 /\ \A k \in 1..Len(w) : w[k] \in Digits

\* re.match(r'^\d+(st|nd|rd|th)$', word)
is_ordinal(w) ==
    /\ Len(w) >= 3
    /\ SubSeq(w, Len(w) - 1, Len(w)) \in
           { <<"s", "t">>, <<"n", "d">>, <<"r", "d">>, <<"t", "h">> }
    /\ isdigit(DropLast(w, 2))

\* re.search(r'\d+[...]', word): a digit followed by a fraction glyph
has_fraction(w) ==
    \E k \in 1..(Len(w) - 1) : w[k] \in Digits /\ w[k + 1] \in FractionGlyphs

\* c{lo,hi}
Repeat(c, lo, hi) == { [k \in 1..n |-> c] : n \in lo..hi }

\* the alternatives of the pattern of line 128
RomanPattern ==
    Repeat("i", 1, 3) \cup { <<"i", "v">>, <<"v">> }
    \cup { <<"v">> \o r : r \in Repeat("i", 0, 3) }
    \cup { <<"i", "x">> } \cup Repeat("x", 1, 3) \cup { <<"x", "l">>, <<"l">> }
    \cup { <<"l">> \o r : r \in Repeat("x", 0, 3) }
    \cup { <<"x", "c">> } \cup Repeat("c", 1, 3) \cup { <<"c", "d">>, <<"d">> }
    \cup { <<"d">> \o r : r \in Repeat("c", 0, 3) }
    \cup { <<"c", "m">> } \cup Repeat("m", 1, 3)

RomanLetters == {"i", "v", "x", "l", "c", "d", "m"}

\* mutant: every short sequence of the seven letters is a numeral
is_roman_numeral_letters_only(w) ==
    /\ Len(w) > 0
    /\ \A k \in 1..Len(w) : w[k] \in RomanLetters
    /\ Len(w) <= 4

\* lines 126-129
is_roman_numeral(w) ==
    /\ Len(w) > 0
    /\ \A k \in 1..Len(w) : w[k] \in RomanLetters
    /\ Len(w) <= 4
    /\ w \in RomanPattern

is_numeric_word(w) ==
    isdigit(w) \/ is_ordinal(w) \/ has_fraction(w) \/ is_roman_numeral(w)

-----------------------------------------------------------------------------
(* lemmatize_word of pipeline/vocabulary/scripts/extract_words.py          *)

\* the dict literal, entry by entry; a repeated key keeps its last value
LEMMA_EXCEPTIONS ==
   << <<<<"g", "r", "o", "u", "n", "d">>, <<"g", "r", "o", "u", "n", "d">>>>,
      <<<<"r", "i", "d", "i", "n", "g">>, <<"r", "i", "d", "e">>>>,
      <<<<"r", "i", "d", "d", "e", "n">>, <<"r", "i", "d", "e">>>>,
      <<<<"r", "o", "d", "e">>, <<"r", "i", "d", "e">>>>,
      <<<<"h", "i", "d", "d", "e", "n">>, <<"h", "i", "d", "e">>>>,
      <<<<"h", "i", "d">>, <<"h", "i", "d", "e">>>>,
      <<<<"b", "i", "t", "t", "e", "n">>, <<"b", "i", "t", "e">>>>,
      <<<<"b", "i", "t">>, <<"b", "i", "t", "e">>>>,
      <<<<"w", "r", "i", "t", "t", "e", "n">>, <<"w", "r", "i", "t", "e">>>>,
      <<<<"w", "r", "o", "t", "e">>, <<"w", "r", "i", "t", "e">>>>,
      <<<<"d", "r", "i", "v", "e", "n">>, <<"d", "r", "i", "v", "e">>>>,
      <<<<"d", "r", "o", "v", "e">>, <<"d", "r", "i", "v", "e">>>>,
      <<<<"r", "i", "s", "e", "n">>, <<"r", "i", "s", "e">>>>,
      <<<<"r", "o", "s", "e">>, <<"r", "i", "s", "e">>>>,
      <<<<"c", "h", "o", "s", "e", "n">>, <<"c", "h", "o", "o", "s", "e">>>>,
      <<<<"c", "h", "o", "s", "e">>, <<"c", "h", "o", "o", "s", "e">>>>,
      <<<<"f", "r", "o", "z", "e", "n">>, <<"f", "r", "e", "e", "z", "e">>>>,
      <<<<"f", "r", "o", "z", "e">>, <<"f", "r", "e", "e", "z", "e">>>>,
      <<<<"s", "p", "o", "k", "e", "n">>, <<"s", "p", "e", "a", "k">>>>,
      <<<<"s", "p", "o", "k", "e">>, <<"s", "p", "e", "a", "k">>>>,
      <<<<"s", "t", "o", "l", "e", "n">>, <<"s", "t", "e", "a", "l">>>>,
      <<<<"s", "t", "o", "l", "e">>, <<"s", "t", "e", "a", "l">>>>,
      <<<<"b", "r", "o", "k", "e", "n">>, <<"b", "r", "e", "a", "k">>>>,
      <<<<"b", "r", "o", "k", "e">>, <<"b", "r", "e", "a", "k">>>>,
      <<<<"w", "o", "k", "e", "n">>, <<"w", "a", "k", "e">>>>,
      <<<<"w", "o", "k", "e">>, <<"w", "a", "k", "e">>>>,
      <<<<"f", "o", "r", "g", "o", "t", "t", "e", "n">>, <<"f", "o", "r", "g", "e", "t">>>>,
      <<<<"f", "o", "r", "g", "o", "t">>, <<"f", "o", "r", "g", "e", "t">>>>,
      <<<<"g", "o", "t", "t", "e", "n">>, <<"g", "e", "t">>>>,
      <<<<"b", "e", "g", "u", "n">>, <<"b", "e", "g", "i", "n">>>>,
      <<<<"b", "e", "g", "a", "n">>, <<"b", "e", "g", "i", "n">>>>,
      <<<<"s", "u", "n", "g">>, <<"s", "i", "n", "g">>>>,
      <<<<"s", "a", "n", "g">>, <<"s", "i", "n", "g">>>>,
      <<<<"r", "u", "n", "g">>, <<"r", "i", "n", "g">>>>,
      <<<<"r", "a", "n", "g">>, <<"r", "i", "n", "g">>>>,
      <<<<"d", "r", "u", "n", "k">>, <<"d", "r", "i", "n", "k">>>>,
      <<<<"d", "r", "a", "n", "k">>, <<"d", "r", "i", "n", "k">>>>,
      <<<<"s", "w", "u", "m">>, <<"s", "w", "i", "m">>>>,
      <<<<"s", "w", "a", "m">>, <<"s", "w", "i", "m">>>>,
      <<<<"s", "u", "n", "k">>, <<"s", "i", "n", "k">>>>,
      <<<<"s", "a", "n", "k">>, <<"s", "i", "n", "k">>>>,
      <<<<"s", "h", "r", "u", "n", "k">>, <<"s", "h", "r", "i", "n", "k">>>>,
      <<<<"s", "h", "r", "a", "n", "k">>, <<"s", "h", "r", "i", "n", "k">>>>,
      <<<<"s", "t", "u", "n", "k">>, <<"s", "t", "i", "n", "k">>>>,
      <<<<"s", "t", "a", "n", "k">>, <<"s", "t", "i", "n", "k">>>>,
      <<<<"s", "p", "r", "u", "n", "g">>, <<"s", "p", "r", "i", "n", "g">>>>,
      <<<<"s", "p", "r", "a", "n", "g">>, <<"s", "p", "r", "i", "n", "g">>>>,
      <<<<"s", "t", "r", "u", "n", "g">>, <<"s", "t", "r", "i", "n", "g">>>>,
      <<<<"s", "t", "r", "u", "n", "g">>, <<"s", "t", "r", "i", "n", "g">>>>,
      <<<<"w", "r", "u", "n", "g">>, <<"w", "r", "i", "n", "g">>>>,
      <<<<"c", "l", "u", "n", "g">>, <<"c", "l", "i", "n", "g">>>>,
      <<<<"f", "l", "u", "n", "g">>, <<"f", "l", "i", "n", "g">>>>,
      <<<<"s", "l", "u", "n", "g">>, <<"s", "l", "i", "n", "g">>>>,
      <<<<"s", "w", "u", "n", "g">>, <<"s", "w", "i", "n", "g">>>>,
      <<<<"h", "u", "n", "g">>, <<"h", "a", "n", "g">>>>,
      <<<<"b", "o", "u", "n", "d">>, <<"b", "i", "n", "d">>>>,
      <<<<"f", "o", "u", "n", "d">>, <<"f", "i", "n", "d">>>>,
      <<<<"w", "o", "u", "n", "d">>, <<"w", "i", "n", "d">>>> >>

ExceptionKeys == { LEMMA_EXCEPTIONS[k][1] : k \in 1..Len(LEMMA_EXCEPTIONS) }

ExceptionValue(w) ==
    LET ks == { k \in 1..Len(LEMMA_EXCEPTIONS) : LEMMA_EXCEPTIONS[k][1] = w }
        last == CHOOSE k \in ks : \A j \in ks : j <= k
    IN LEMMA_EXCEPTIONS[last][2]

\* mutant: the exception table is not consulted
lemmatize_word_rules_only(w, noun, verb) ==
    IF verb /= w /\ Len(verb) > 1 /\ (noun = w \/ Len(noun) <= 2) THEN verb
    ELSE IF noun /= w THEN noun
    ELSE verb

\* mutant: the exception table is consulted only for a word that both
\* lookups leave unchanged
lemmatize_word_table_last(w, noun, verb) ==
    IF verb /= w /\ Len(verb) > 1 /\ (noun = w \/ Len(noun) <= 2) THEN verb
    ELSE IF noun /= w THEN noun
    ELSE IF w \in ExceptionKeys THEN ExceptionValue(w)
    ELSE verb

\* mutant: a noun lemma counts as too short only below 2 characters
lemmatize_word_short_noun(w, noun, verb) ==
    IF w \in ExceptionKeys THEN ExceptionValue(w)
    ELSE IF verb /= w /\ Len(verb) > 1 /\ (noun = w \/ Len(noun) < 2) THEN verb
    ELSE IF noun /= w THEN noun
    ELSE verb

\* noun and verb are the answers of lemmatizer.lemmatize(word, pos='n') and
\* lemmatizer.lemmatize(word, pos='v')
lemmatize_word(w, noun, verb) ==
    IF w \in ExceptionKeys THEN ExceptionValue(w)
    ELSE IF verb /= w /\ Len(verb) > 1 /\ (noun = w \/ Len(noun) <= 2) THEN verb
    ELSE IF noun /= w THEN noun
    ELSE verb

-----------------------------------------------------------------------------
(* clean_text of pipeline/vocabulary/scripts/extract_words.py              *)
(* A character outside ASCII is the one-element string of its name:        *)
(* "LDQUO" and "RDQUO" are U+201C and U+201D, "LSQUO" and "RSQUO" are      *)
(* U+2018 and U+2019, "EMDASH" is U+2014 and "ENDASH" is U+2013; "TAB"     *)
(* and "NEWLINE" are the two control characters.                           *)

\* \s of the regular expressions
IsSpace(c) == c \in {" ", "TAB", "NEWLINE"}

\* the four str.replace calls on quotes and the two on dashes
replace_unicode(t) ==
    [k \in 1..Len(t) |->
        IF t[k] \in {"LDQUO", "RDQUO"} THEN "\""
        ELSE IF t[k] \in {"LSQUO", "RSQUO"} THEN "'"
        ELSE IF t[k] \in {"EMDASH", "ENDASH"} THEN " "
        ELSE t[k]]

\* the characters of t at the positions outside drop, in order
RECURSIVE without_positions(_, _, _, _)
without_positions(t, drop, k, acc) ==
    IF k > Len(t) THEN acc
    ELSE without_positions(t, drop, k + 1,
                           IF k \in drop THEN acc ELSE Append(acc, t[k]))

\* re.sub(r"'s\b", "", t): \b after the "s" holds at the end of the text
\* and before a character that is not \w
remove_possessive_s(t) ==
    LET m == { k \in 1..(Len(t) - 1) :
                 /\ t[k] = "'"
                 /\ t[k + 1] = "s"
                 /\ (k + 1 = Len(t) \/ ~IsWordChar(t[k + 2])) }
    IN without_positions(t, m \cup { k + 1 : k \in m }, 1, <<>>)

\* re.sub(r"s'\b", "s", t): the apostrophe is not \w, so \b after it holds
\* only before a \w character
remove_plural_possessive(t) ==
    LET m == { k \in 1..(Len(t) - 2) :
                 /\ t[k] = "s"
                 /\ t[k + 1] = "'"
                 /\ IsWordChar(t[k + 2]) }
    IN without_positions(t, { k + 1 : k \in m }, 1, <<>>)

\* mutant: an apostrophe becomes a space
apostrophes_to_space(t) ==
    [k \in 1..Len(t) |-> IF t[k] = "'" THEN " " ELSE t[k]]

\* re.sub(r"'", "", t)
remove_apostrophes(t) ==
    without_positions(t, { k \in 1..Len(t) : t[k] = "'" }, 1, <<>>)

\* re.sub(r"[^\w\s]", " ", t)
punctuation_to_space(t) ==
    [k \in 1..Len(t) |-> IF IsWordChar(t[k]) \/ IsSpace(t[k]) THEN t[k] ELSE " "]

\* re.sub(r"\s+", " ", t): a run of \s becomes one space
normalize_whitespace(t) ==
    LET spaced == [k \in 1..Len(t) |-> IF IsSpace(t[k]) THEN " " ELSE t[k]]
    IN without_positions(spaced,
                         { k \in 2..Len(t) : IsSpace(t[k]) /\ IsSpace(t[k - 1]) },
                         1, <<>>)

\* str.strip()
strip(t) ==
    LET inner == { k \in 1..Len(t) : ~IsSpace(t[k]) }
    IN IF inner = {} THEN <<>>
       ELSE SubSeq(t, CHOOSE a \in inner : \A k \in inner : a <= k,
                      CHOOSE b \in inner : \A k \in inner : k <= b)

clean_text(t) ==
    strip(Lower(normalize_whitespace(punctuation_to_space(remove_apostrophes(
        remove_plural_possessive(remove_possessive_s(replace_unicode(t))))))))

\* str.split(): the maximal runs of characters that are not whitespace
RECURSIVE split_from(_, _, _, _)
split_from(t, k, current, acc) ==
    IF k > Len(t) THEN (IF current = <<>> THEN acc ELSE Append(acc, current))
    ELSE IF IsSpace(t[k])
         THEN split_from(t, k + 1, <<>>,
                         IF current = <<>> THEN acc ELSE Append(acc, current))
         ELSE split_from(t, k + 1, Append(current, t[k]), acc)

split(t) == split_from(t, 1, <<>>, <<>>)

-----------------------------------------------------------------------------
(* The vocabulary list: save_output of extract_words.py, filter_stopwords, *)
(* filter_proper_nouns, and apply_final_filters and add_rankings of        *)
(* finalize.py                                                             *)

\* sorted(..., key=count, reverse=True) is stable: an entry goes behind the
\* entries whose count is at least its own
insert_by_count(sorted, item) ==
    LET p == Cardinality({ k \in 1..Len(sorted) : sorted[k].count >= item.count })
    IN SubSeq(sorted, 1, p) \o <<item>> \o SubSeq(sorted, p + 1, Len(sorted))

RECURSIVE most_common_from(_, _, _)
most_common_from(counter, k, sorted) ==
    IF k > Len(counter) THEN sorted
    ELSE most_common_from(counter, k + 1, insert_by_count(sorted, counter[k]))

\* mutant: a word that is counted again starts at 1 again
counter_add_reset(counter, w) ==
    IF \E k \in 1..Len(counter) : counter[k].word = w
    THEN [k \in 1..Len(counter) |->
              IF counter[k].word = w THEN [counter[k] EXCEPT !.count = 1]
              ELSE counter[k]]
    ELSE Append(counter, [word |-> w, count |-> 1])

\* word_counts[lemmatized] += 1 on a Counter
counter_add(counter, w) ==
    IF \E k \in 1..Len(counter) : counter[k].word = w
    THEN [k \in 1..Len(counter) |->
              IF counter[k].word = w THEN [counter[k] EXCEPT !.count = @ + 1]
              ELSE counter[k]]
    ELSE Append(counter, [word |-> w, count |-> 1])

\* mutant: the entries stay in the Counter's insertion order
most_common_unsorted(counter) == counter

\* Counter.most_common()
most_common(counter) == most_common_from(counter, 1, <<>>)

filter_stopwords(data_words, stops) ==
    LET keep(item) == item.word \notin stops
    IN SelectSeq(data_words, keep)

filter_proper_nouns(data_words, nouns) ==
    LET keep(item) == item.word \notin nouns
    IN SelectSeq(data_words, keep)


apply_final_filters(ws) ==
    LET keep(item) ==
            /\ ~isdigit(item.word)
            /\ ~(Len(item.word) < MIN_WORD_LENGTH)
            /\ ~(item.count < MIN_FREQUENCY)
    IN SelectSeq(ws, keep)

\* mutant: enumerate without start=1
add_rankings_from_zero(ws) ==
    [k \in 1..Len(ws) |-> [word |-> ws[k].word, count |-> ws[k].count, rank |-> k - 1]]

add_rankings(ws) ==
    [k \in 1..Len(ws) |-> [word |-> ws[k].word, count |-> ws[k].count, rank |-> k]]

-----------------------------------------------------------------------------
(* build_inverted_index                                                    *)
\* mutant: the first word to claim a variant keeps it, the word itself included
add_word_variants_first_wins(table, w) ==
    [v \in DOMAIN table \cup get_word_variants(w) |->
        IF v \in DOMAIN table THEN table[v] ELSE w]

\* mutant: a variant is mapped to the last word that generates it
add_word_variants_last_wins(table, w) ==
    [v \in DOMAIN table \cup get_word_variants(w) |->
        IF v \in get_word_variants(w) THEN w ELSE table[v]]

\* lines 111-116 for one vocabulary word: a variant not yet in the table is
\* mapped to the word; the word itself is always mapped to itself
add_word_variants(table, w) ==
    [v \in DOMAIN table \cup get_word_variants(w) |->
        IF v = w THEN w
        ELSE IF v \in DOMAIN table THEN table[v]
        ELSE w]

\* lines 109-116, the vocabulary set iterated in the order given
RECURSIVE build_all_variants(_, _)
build_all_variants(table, order) ==
    IF order = <<>> THEN table
    ELSE build_all_variants(add_word_variants(table, Head(order)), Tail(order))

\* the orders in which a set may be iterated
Orders(S) ==
    { o \in [1..Cardinality(S) -> S] :
        \A a, b \in 1..Cardinality(S) : a # b => o[a] # o[b] }

\* the (book, chapter, verse, text) items in the order of the three nested
\* loops of lines 125-127
RECURSIVE VersesOf(_, _, _)
VersesOf(book, chapter, verses) ==
    IF verses = <<>> THEN <<>>
    ELSE <<[book |-> book, chapter |-> chapter,
            verse |-> Head(verses).verse, text |-> Head(verses).text]>>
         \o VersesOf(book, chapter, Tail(verses))

RECURSIVE ChaptersOf(_, _)
ChaptersOf(book, chapters) ==
    IF chapters = <<>> THEN <<>>
    ELSE VersesOf(book, Head(chapters).chapter, Head(chapters).verses)
         \o ChaptersOf(book, Tail(chapters))

RECURSIVE BibleItems(_)
BibleItems(b) ==
    IF b = <<>> THEN <<>>
    ELSE ChaptersOf(Head(b).book, Head(b).chapters) \o BibleItems(Tail(b))
\* mutant: only the upper bound is tested
in_length_bounds_upper_only(length) == ~(length > MAX_SENTENCE_LENGTH)

\* line 131, negated: the verse is not skipped
in_length_bounds(length) ==
    ~(length > MAX_SENTENCE_LENGTH \/ length < MIN_SENTENCE_LENGTH)

\* lines 137-142
store_sentence(store, sid, item) ==
    [s \in DOMAIN store \cup {sid} |->
        IF s = sid
        THEN [text |-> item.text,
              ref |-> sentence_ref(item.book, item.chapter, item.verse),
              book |-> item.book,
              length |-> Len(item.text)]
        ELSE store[s]]

\* lines 148-155 for one verse: one candidate record is appended to the list
\* of a word for every token of the verse that the table maps to that word
append_candidates(index, table, sid, item) ==
    LET tokens  == extract_words_from_text(item.text) \cap DOMAIN table
        hit     == { table[t] : t \in tokens }
        cand    == [id |-> sid, length |-> Len(item.text), book |-> item.book]
        times(w) == Cardinality({ t \in tokens : table[t] = w })
    IN [w \in DOMAIN index \cup hit |->
          (IF w \in DOMAIN index THEN index[w] ELSE <<>>)
          \o [k \in 1..(IF w \in hit THEN times(w) ELSE 0) |-> cand]]

\* lines 125-155: st = [index, sentences] after the items from k on
RECURSIVE index_verses(_, _, _, _)
index_verses(items, k, table, st) ==
    IF k > Len(items) THEN st
    ELSE LET item == items[k]
             sid  == generate_sentence_id(item.book, item.chapter, item.verse)
         IN IF ~in_length_bounds(Len(item.text))
            THEN index_verses(items, k + 1, table, st)
            ELSE index_verses(items, k + 1, table,
                    [index |-> append_candidates(st.index, table, sid, item),
                     sentences |-> store_sentence(st.sentences, sid, item)])

-----------------------------------------------------------------------------
(* select_sentences_for_word                                               *)

\* the sort key of line 169 compared: (id in used, length), False < True
KeyLess(a, b, used) ==
    \/ a.id \notin used /\ b.id \in used
    \/ (a.id \in used) = (b.id \in used) /\ a.length < b.length

\* x inserted after the elements of the sorted list s that do not follow it
InsertStable(s, x, used) ==
    LET n == Cardinality({ k \in 1..Len(s) : ~KeyLess(x, s[k], used) })
    IN SubSeq(s, 1, n) \o <<x>> \o SubSeq(s, n + 1, Len(s))

RECURSIVE SortFrom(_, _, _, _)
SortFrom(cands, k, used, acc) ==
    IF k > Len(cands) THEN acc
    ELSE SortFrom(cands, k + 1, used, InsertStable(acc, cands[k], used))

\* mutant: the sort key is the length alone
sort_candidates_by_length(cands, used) == SortFrom(cands, 1, {}, <<>>)

\* line 169: candidates.sort(key=...), a stable sort
sort_candidates(cands, used) == SortFrom(cands, 1, used, <<>>)

\* mutant: the first pass takes a candidate whatever its book
RECURSIVE first_pass_any_book(_, _, _, _)
first_pass_any_book(cands, k, selected, selected_books) ==
    IF k > Len(cands) \/ Len(selected) >= MAX_SENTENCES_PER_WORD THEN selected
    ELSE first_pass_any_book(cands, k + 1, Append(selected, cands[k].id), selected_books)

\* lines 176-181
RECURSIVE first_pass(_, _, _, _)
first_pass(cands, k, selected, selected_books) ==
    IF k > Len(cands) \/ Len(selected) >= MAX_SENTENCES_PER_WORD THEN selected
    ELSE IF cands[k].book \notin selected_books
         THEN first_pass(cands, k + 1, Append(selected, cands[k].id),
                         selected_books \cup {cands[k].book})
         ELSE first_pass(cands, k + 1, selected, selected_books)
\* mutant: the fill pass does not test whether the id is already selected
RECURSIVE second_pass_no_test(_, _, _)
second_pass_no_test(cands, k, selected) ==
    IF k > Len(cands) \/ Len(selected) >= MAX_SENTENCES_PER_WORD THEN selected
    ELSE second_pass_no_test(cands, k + 1, Append(selected, cands[k].id))

\* lines 184-188
RECURSIVE second_pass(_, _, _)
second_pass(cands, k, selected) ==
    IF k > Len(cands) \/ Len(selected) >= MAX_SENTENCES_PER_WORD THEN selected
    ELSE IF cands[k].id \notin Range(selected)
         THEN second_pass(cands, k + 1, Append(selected, cands[k].id))
         ELSE second_pass(cands, k + 1, selected)
\* mutant: sentences already used are not candidates any more
select_unused_only(cands, used) ==
    LET unused == SelectSeq(cands, LAMBDA c : c.id \notin used)
    IN IF unused = <<>> THEN <<>>
       ELSE LET sorted == sort_candidates(unused, used)
            IN second_pass(sorted, 1, first_pass(sorted, 1, <<>>, {}))

\* the return value of select_sentences_for_word
select_sentences_for_word(cands, used) ==
    IF cands = <<>> THEN <<>>
    ELSE LET sorted == sort_candidates(cands, used)
         IN second_pass(sorted, 1, first_pass(sorted, 1, <<>>, {}))
\* mutant: the sorted list is cut to the entries that can be selected
candidates_after_select_cut(cands, used) ==
    IF cands = <<>> THEN cands
    ELSE LET sorted == sort_candidates(cands, used)
         IN SubSeq(sorted, 1, IF Len(sorted) < MAX_SENTENCES_PER_WORD
                                THEN Len(sorted) ELSE MAX_SENTENCES_PER_WORD)

\* the list object after the call: line 169 sorts it in place
candidates_after_select(cands, used) ==
    IF cands = <<>> THEN cands ELSE sort_candidates(cands, used)

-----------------------------------------------------------------------------
(* extract_sentences, one word                                             *)
\* mutant: the threshold is exclusive
enough_sentences_strict(ids) == Len(ids) > MIN_SENTENCES_PER_WORD

\* mutant: the words are taken from the end of the list
word_at_reversed(words, k) == words[Len(words) - k]

\* line 211: the entry of iteration k of enumerate(words), k counted from 0
word_at(words, k) == words[k + 1]

\* mutant: one sentence is enough
enough_sentences_nonempty(ids) == Len(ids) >= 1

\* line 218
enough_sentences(ids) == Len(ids) >= MIN_SENTENCES_PER_WORD
\* mutant: only the first selected sentence is stored
add_output_sentences_first_only(output, sentences, ids) ==
    [s \in DOMAIN output \cup {ids[1]} |->
        IF s \in DOMAIN output THEN output[s]
        ELSE [text |-> sentences[s].text,
              ref |-> sentences[s].ref,
              book |-> sentences[s].book]]

\* lines 222-228, the sentence store after the loop over sentence_ids
add_output_sentences(output, sentences, ids) ==
    [s \in DOMAIN output \cup Range(ids) |->
        IF s \in DOMAIN output THEN output[s]
        ELSE [text |-> sentences[s].text,
              ref |-> sentences[s].ref,
              book |-> sentences[s].book]]
\* mutant: the selected ids are not recorded as used
add_used_sentences_skipped(used, ids) == used

\* line 229, used_sentences after the loop over sentence_ids
add_used_sentences(used, ids) == used \cup Range(ids)

\* lines 231 and 234
with_sentence_ids(word_data, ids) ==
    [word |-> word_data.word, rank |-> word_data.rank, sentence_ids |-> ids]

-----------------------------------------------------------------------------
(* extract_sentences                                                       *)

NoVocabulary == Vocabulary(<<>>)
NoResult ==
    [metadata |-> [total_words |-> 0, sentences_extracted |-> FALSE, total_sentences |-> 0],
     words |-> <<>>]

PipelineIdle ==
    /\ vocabulary = NoVocabulary
    /\ bible = <<>>

DriverIdle ==
    /\ word = <<>>
    /\ variants = {}
    /\ wf_variants = {}

NoTwin ==
    [words |-> <<>>, word_to_sentences |-> <<>>, used_sentences |-> {},
     output_sentences |-> <<>>, updated_words |-> <<>>, i |-> 0]

TwinIdle == twin = NoTwin

SelectIdle ==
    /\ candidate_list = <<>>
    /\ used_ids = {}
    /\ selected_ids = <<>>

LemmaIdle ==
    /\ noun_lemma = <<>>
    /\ verb_lemma = <<>>
    /\ lemmatized = <<>>

CleanIdle ==
    /\ raw_text = <<>>
    /\ cleaned = <<>>
    /\ clean_tokens = <<>>

RankIdle ==
    /\ word_counts = <<>>
    /\ stopwords = {}
    /\ proper_nouns = {}
    /\ word_list = <<>>

StagesIdle ==
    /\ numeric = FALSE
    /\ verse_count = 0
    /\ numeric_words_skipped = 0
    /\ verse_words = <<>>
    /\ lemmatize_calls = <<>>
    /\ version = ""
    /\ with_sentences = FALSE
    /\ steps = <<>>
    /\ started = <<>>
    /\ returncodes = <<>>
    /\ exit_status = -1
    /\ success_printed = FALSE
    /\ futures = <<>>
    /\ collected = {}
    /\ all_definitions = <<>>
    /\ all_failed = <<>>
    /\ retry_done = 0
    /\ retry_failed = <<>>
    /\ failed_words_file = <<>>
    /\ missing_ids = <<>>
    /\ batches = <<>>
    /\ retry_round = 0
    /\ round_futures = <<>>
    /\ round_collected = {}
    /\ round_translations = <<>>
    /\ failed_ids = <<>>
    /\ all_translations = <<>>
    /\ submissions = <<>>
    /\ bible_data = <<>>
    /\ strongs_dict = {}
    /\ words_data = <<>>
    /\ filtered_words = <<>>
    /\ hebrew_vocabulary = <<>>
    /\ hebrew_sentences = <<>>

Locals0 ==
    /\ all_variants = <<>>
    /\ word_to_sentences = <<>>
    /\ all_sentences = <<>>
    /\ used_sentences = {}
    /\ output_sentences = <<>>
    /\ updated_words = <<>>
    /\ i = 0
    /\ sentence_ids = <<>>
    /\ words_with_sentences = 0
    /\ words_without_sentences = 0
    /\ updated_vocabulary = NoResult
    /\ variant_order = <<>>

Init ==
    /\ pc = "build"
    /\ \/ /\ bible \in SelectionCorpora
          /\ vocabulary \in { Vocabulary(ws) : ws \in WordLists({king, kings}) }
       \/ /\ bible \in IndexCorpora
          /\ vocabulary \in { Vocabulary(ws) : ws \in WordLists({king, kings, create}) }
       \/ /\ bible \in InflectionCorpora
          /\ vocabulary \in { Vocabulary(ws) : ws \in WordLists({us, use, ride}) }
    /\ Locals0
    /\ DriverIdle
    /\ TwinIdle
    /\ StagesIdle
    /\ SelectIdle
    /\ LemmaIdle
    /\ CleanIdle
    /\ RankIdle

\* lines 195-204: the vocabulary set, the index, the empty result containers
BuildIndexStep ==
    /\ pc = "build"
    /\ LET vocabulary_words == { vocabulary.words[k].word : k \in 1..Len(vocabulary.words) }
       IN \E order \in Orders(vocabulary_words) :
            LET table == build_all_variants(<<>>, order)
                st == index_verses(BibleItems(bible), 1, table,
                                   [index |-> <<>>, sentences |-> <<>>])
            IN /\ all_variants' = table
               /\ word_to_sentences' = st.index
               /\ all_sentences' = st.sentences
               /\ variant_order' = order
    /\ pc' = "select"
    /\ UNCHANGED <<vocabulary, bible, used_sentences, output_sentences, updated_words,
                   i, sentence_ids, words_with_sentences, words_without_sentences,
                   updated_vocabulary>>
    /\ UNCHANGED <<variantVars, selectVars, lemmaVars, cleanVars, rankVars, stageVars>>

BuildIndex == BuildIndexStep /\ UNCHANGED twin

\* lines 211-236: one iteration of the loop over the words
ProcessWordStep ==
    /\ pc = "select"
    /\ i < Len(vocabulary.words)
    /\ LET word_data  == word_at(vocabulary.words, i)
           w          == word_data.word
           known      == w \in DOMAIN word_to_sentences
           candidates == IF known THEN word_to_sentences[w] ELSE <<>>
           ids        == select_sentences_for_word(candidates, used_sentences)
       IN /\ sentence_ids' = ids
          /\ word_to_sentences' =
                IF known
                THEN [word_to_sentences EXCEPT
                        ![w] = candidates_after_select(candidates, used_sentences)]
                ELSE word_to_sentences
          /\ IF enough_sentences(ids)
             THEN /\ words_with_sentences' = words_with_sentences + 1
                  /\ output_sentences' = add_output_sentences(output_sentences, all_sentences, ids)
                  /\ used_sentences' = add_used_sentences(used_sentences, ids)
                  /\ updated_words' = Append(updated_words, with_sentence_ids(word_data, ids))
                  /\ UNCHANGED words_without_sentences
             ELSE /\ words_without_sentences' = words_without_sentences + 1
                  /\ updated_words' = Append(updated_words, with_sentence_ids(word_data, <<>>))
                  /\ UNCHANGED <<words_with_sentences, output_sentences, used_sentences>>
    /\ i' = i + 1
    /\ UNCHANGED <<pc, vocabulary, bible, all_variants, all_sentences,
                   updated_vocabulary, variant_order>>
    /\ UNCHANGED <<variantVars, selectVars, lemmaVars, cleanVars, rankVars, stageVars>>

ProcessWord == ProcessWordStep /\ UNCHANGED twin

\* lines 245-254
Finish ==
    /\ pc = "select"
    /\ i = Len(vocabulary.words)
    /\ updated_vocabulary' =
          [metadata |-> [total_words |-> vocabulary.metadata.total_words,
                         sentences_extracted |-> TRUE,
                         total_sentences |-> Cardinality(DOMAIN output_sentences)],
           words |-> updated_words]
    /\ pc' = "done"
    /\ UNCHANGED <<vocabulary, bible, all_variants, word_to_sentences, all_sentences,
                   used_sentences, output_sentences, updated_words, i, sentence_ids,
                   words_with_sentences, words_without_sentences, variant_order>>
    /\ UNCHANGED <<twin, variantVars, selectVars, lemmaVars, cleanVars, rankVars, stageVars>>

Next == BuildIndex \/ ProcessWord \/ Finish

Spec == Init /\ [][Next]_vars

-----------------------------------------------------------------------------
(* The variant driver: both get_word_variants applied to one word          *)

InitVariants ==
    /\ pc = "expand"
    /\ word \in DriverWords
    /\ variants = {}
    /\ wf_variants = {}
    /\ PipelineIdle
    /\ Locals0
    /\ TwinIdle
    /\ StagesIdle
    /\ SelectIdle
    /\ LemmaIdle
    /\ CleanIdle
    /\ RankIdle

ExpandVariants ==
    /\ pc = "expand"
    /\ variants' = get_word_variants(word)
    /\ wf_variants' = word_forms_get_word_variants(word)
    /\ pc' = "expanded"
    /\ UNCHANGED <<extractVars, word>>
    /\ UNCHANGED <<twin, selectVars, lemmaVars, cleanVars, rankVars, stageVars>>

NextVariants == ExpandVariants

SpecVariants == InitVariants /\ [][NextVariants]_vars

-----------------------------------------------------------------------------
(* The lemma driver: lemmatize_word applied to one word and the two        *)
(* answers of the dictionary                                               *)

\* the dictionary gives back the word, a shorter base form of it, or the
\* base form of an irregular inflection
ground == <<"g", "r", "o", "u", "n", "d">>
grind == <<"g", "r", "i", "n", "d">>

\* "ground" is the past tense of "grind" for the dictionary
Lookups(w) ==
    {w} \cup { SubSeq(w, 1, k) : k \in 1..Len(w) }
        \cup (IF w \in ExceptionKeys THEN {ExceptionValue(w)} ELSE {})
        \cup (IF w = ground THEN {grind} ELSE {})

LemmaWords == ExceptionKeys \cup SampleWords

InitLemma ==
    /\ pc = "lemmatize"
    /\ word \in LemmaWords
    /\ noun_lemma \in Lookups(word)
    /\ verb_lemma \in Lookups(word)
    /\ lemmatized = <<>>
    /\ variants = {}
    /\ wf_variants = {}
    /\ PipelineIdle
    /\ Locals0
    /\ TwinIdle
    /\ StagesIdle
    /\ SelectIdle
    /\ CleanIdle
    /\ RankIdle

Lemmatize ==
    /\ pc = "lemmatize"
    /\ lemmatized' = lemmatize_word(word, noun_lemma, verb_lemma)
    /\ pc' = "lemmatized"
    /\ UNCHANGED <<extractVars, twin, variantVars, noun_lemma, verb_lemma,
                   selectVars, cleanVars, rankVars, stageVars>>

NextLemma == Lemmatize

SpecLemma == InitLemma /\ [][NextLemma]_vars

-----------------------------------------------------------------------------
(* The vocabulary stages: raw words, stopword filter, proper-noun filter,  *)
(* final filters, ranking                                                  *)

twelve == <<"1", "2">>
a_word == <<"a">>
the == <<"t", "h", "e">>
moses == <<"m", "o", "s", "e", "s">>
ark == <<"a", "r", "k">>
RankWords == {twelve, a_word, the, moses, ark, king}
CountValues == (MIN_FREQUENCY - 1)..(MIN_FREQUENCY + 1)

\* a Counter: distinct words in the order of their first occurrence
Counters ==
    LET entries == [word : RankWords, count : CountValues]
    IN { c \in SeqsUpTo(entries, MaxCountWords) :
            \A x, y \in 1..Len(c) : x /= y => c[x].word /= c[y].word }

InitRank ==
    /\ pc = "extract_words"
    /\ word_counts \in Counters
    /\ stopwords = {the}
    /\ proper_nouns = {moses}
    /\ word_list = <<>>
    /\ PipelineIdle
    /\ Locals0
    /\ DriverIdle
    /\ TwinIdle
    /\ StagesIdle
    /\ SelectIdle
    /\ LemmaIdle
    /\ CleanIdle

RankFrame ==
    UNCHANGED <<extractVars, twin, variantVars, selectVars, lemmaVars, cleanVars,
                word_counts, stopwords, proper_nouns, stageVars>>

SaveOutput ==
    /\ pc = "extract_words"
    /\ word_list' = most_common(word_counts)
    /\ pc' = "filter_stopwords"
    /\ RankFrame

FilterStopwords ==
    /\ pc = "filter_stopwords"
    /\ word_list' = filter_stopwords(word_list, stopwords)
    /\ pc' = "filter_proper_nouns"
    /\ RankFrame

FilterProperNouns ==
    /\ pc = "filter_proper_nouns"
    /\ word_list' = filter_proper_nouns(word_list, proper_nouns)
    /\ pc' = "finalize"
    /\ RankFrame

\* finalize.main: apply_final_filters, then add_rankings
ApplyFinalFilters ==
    /\ pc = "finalize"
    /\ word_list' = apply_final_filters(word_list)
    /\ pc' = "add_rankings"
    /\ RankFrame

AddRankings ==
    /\ pc = "add_rankings"
    /\ word_list' = add_rankings(word_list)
    /\ pc' = "ranked"
    /\ RankFrame

NextRank ==
    SaveOutput \/ FilterStopwords \/ FilterProperNouns \/ ApplyFinalFilters \/ AddRankings

SpecRank == InitRank /\ [][NextRank]_vars

-----------------------------------------------------------------------------
(* The text driver: clean_text and split applied to one verse text         *)

KingsMenText ==
    <<"T", "h", "e", " ", "k", "i", "n", "g", "'", "s", " ", "m", "e", "n", "EMDASH", "b", "r", "a", "v", "e", " ", "a", "n", "d", " ", "t", "r", "u", "e", "EMDASH", "d", "o", "n", "'", "t", " ", "y", "i", "e", "l", "d", ".">>

TextPieces ==
    { <<"K", "i", "n", "g">>,
      <<"m", "e", "n">>,
      <<"'", "s">>,
      <<"s", "'">>,
      <<"'">>,
      <<"EMDASH">>,
      <<"RSQUO">>,
      <<" ">>,
      <<".">>,
      <<"TAB">> }

RECURSIVE JoinPieces(_)
JoinPieces(ps) == IF ps = <<>> THEN <<>> ELSE Head(ps) \o JoinPieces(Tail(ps))

CleanTexts == {KingsMenText} \cup { JoinPieces(ps) : ps \in SeqsUpTo(TextPieces, MaxPieces) }

InitClean ==
    /\ pc = "clean"
    /\ raw_text \in CleanTexts
    /\ cleaned = <<>>
    /\ clean_tokens = <<>>
    /\ PipelineIdle
    /\ Locals0
    /\ DriverIdle
    /\ TwinIdle
    /\ StagesIdle
    /\ SelectIdle
    /\ LemmaIdle
    /\ RankIdle

\* extract_words, lines 164-165
CleanAndSplit ==
    /\ pc = "clean"
    /\ cleaned' = clean_text(raw_text)
    /\ clean_tokens' = split(clean_text(raw_text))
    /\ pc' = "cleaned"
    /\ UNCHANGED <<extractVars, twin, variantVars, selectVars, lemmaVars, raw_text,
                   rankVars, stageVars>>

NextClean == CleanAndSplit

SpecClean == InitClean /\ [][NextClean]_vars

-----------------------------------------------------------------------------
(* The selection driver: select_sentences_for_word applied to one          *)
(* candidate list and one set of used ids                                  *)

BookNames ==
    << <<"G", "e", "n", "e", "s", "i", "s">>,
       <<"E", "x", "o", "d", "u", "s">>,
       <<"L", "e", "v", "i", "t", "i", "c", "u", "s">>,
       <<"N", "u", "m", "b", "e", "r", "s">>,
       <<"D", "e", "u", "t", "e", "r", "o", "n", "o", "m", "y">>,
       <<"J", "o", "s", "h", "u", "a">>,
       <<"J", "u", "d", "g", "e", "s">>,
       <<"R", "u", "t", "h">> >>

\* A candidate list as build_inverted_index leaves it: verses in corpus
\* order, so the verses of a book are adjacent; breaks holds the positions
\* where the next book starts, lens says how the lengths run, and twice
\* tells whether the first verse holds the word twice.
CandidateShapes ==
    UNION { [n : {m}, breaks : SUBSET (2..m), lens : {"equal", "rising", "falling"},
             taken : SUBSET (1..m), twice : BOOLEAN] : m \in 0..MaxCands }

ShapeCandidate(sh, k) ==
    LET book == BookNames[1 + Cardinality({ b \in sh.breaks : b <= k })]
    IN [id |-> generate_sentence_id(book, <<"1">>, Numeral(k)),
        length |-> MIN_SENTENCE_LENGTH +
                     (IF sh.lens = "rising" THEN k - 1
                      ELSE IF sh.lens = "falling" THEN sh.n - k
                      ELSE 0),
        book |-> book]

ShapeCandidates(sh) ==
    LET cands == [k \in 1..sh.n |-> ShapeCandidate(sh, k)]
    IN IF sh.twice /\ sh.n > 0 THEN <<cands[1]>> \o cands ELSE cands

InitSelect ==
    /\ pc = "choose"
    /\ \E sh \in CandidateShapes :
          /\ candidate_list = ShapeCandidates(sh)
          /\ used_ids = { ShapeCandidate(sh, k).id : k \in sh.taken }
    /\ selected_ids = <<>>
    /\ PipelineIdle
    /\ Locals0
    /\ DriverIdle
    /\ TwinIdle
    /\ StagesIdle
    /\ LemmaIdle
    /\ CleanIdle
    /\ RankIdle

\* one call: the return value, and the argument list sorted in place
SelectSentences ==
    /\ pc = "choose"
    /\ selected_ids' = select_sentences_for_word(candidate_list, used_ids)
    /\ candidate_list' = candidates_after_select(candidate_list, used_ids)
    /\ pc' = "chosen"
    /\ UNCHANGED <<extractVars, twin, variantVars, used_ids, lemmaVars, cleanVars,
                   rankVars, stageVars>>

NextSelect == SelectSentences

SpecSelect == InitSelect /\ [][NextSelect]_vars

-----------------------------------------------------------------------------
(* Two runs of extract_sentences side by side: the run on vocabulary and   *)
(* the run on twin.words, whose build_inverted_index returns the same      *)
(* index; the two lists start with the same word                           *)

InitPair ==
    /\ pc = "build"
    /\ bible \in PairCorpora
    /\ \E ws1, ws2 \in WordLists({king, kings, create}) \ {<<>>} :
          /\ ws1[1] = ws2[1]
          /\ vocabulary = Vocabulary(ws1)
          /\ twin = [NoTwin EXCEPT !.words = Vocabulary(ws2).words]
    /\ Locals0
    /\ DriverIdle
    /\ SelectIdle
    /\ LemmaIdle
    /\ CleanIdle
    /\ RankIdle
    /\ StagesIdle

\* the index build_inverted_index returns for the vocabulary list ws,
\* iterated in some order
IndexesOf(ws) ==
    { index_verses(BibleItems(bible), 1, build_all_variants(<<>>, order),
                   [index |-> <<>>, sentences |-> <<>>]) :
        order \in Orders({ ws[k].word : k \in 1..Len(ws) }) }

\* both runs build the index; the pair goes on when the two are the same
BuildIndexPair ==
    /\ BuildIndexStep
    /\ [index |-> word_to_sentences', sentences |-> all_sentences'] \in IndexesOf(twin.words)
    /\ twin' = [twin EXCEPT !.word_to_sentences = word_to_sentences']

\* lines 211-236 for the second run
process_word(run) ==
    LET word_data  == word_at(run.words, run.i)
        w          == word_data.word
        known      == w \in DOMAIN run.word_to_sentences
        cands      == IF known THEN run.word_to_sentences[w] ELSE <<>>
        ids        == select_sentences_for_word(cands, run.used_sentences)
        index      == IF known
                      THEN [run.word_to_sentences EXCEPT
                              ![w] = candidates_after_select(cands, run.used_sentences)]
                      ELSE run.word_to_sentences
    IN IF enough_sentences(ids)
       THEN [run EXCEPT
               !.word_to_sentences = index,
               !.output_sentences = add_output_sentences(run.output_sentences, all_sentences, ids),
               !.used_sentences = add_used_sentences(run.used_sentences, ids),
               !.updated_words = Append(run.updated_words, with_sentence_ids(word_data, ids)),
               !.i = run.i + 1]
       ELSE [run EXCEPT
               !.word_to_sentences = index,
               !.updated_words = Append(run.updated_words, with_sentence_ids(word_data, <<>>)),
               !.i = run.i + 1]

\* each run that has a word left processes its next word
ProcessPair ==
    /\ pc = "select"
    /\ i < Len(vocabulary.words) \/ twin.i < Len(twin.words)
    /\ IF i < Len(vocabulary.words)
       THEN ProcessWordStep
       ELSE UNCHANGED <<pc, extractVars, variantVars, selectVars, lemmaVars, cleanVars,
                        rankVars, stageVars>>
    /\ twin' = IF twin.i < Len(twin.words) THEN process_word(twin) ELSE twin

FinishPair ==
    /\ twin.i = Len(twin.words)
    /\ Finish

NextPair == BuildIndexPair \/ ProcessPair \/ FinishPair

SpecPair == InitPair /\ [][NextPair]_vars

-----------------------------------------------------------------------------
(* The numeric driver: is_numeric_word applied to one token                *)

liv == <<"l", "i", "v">>
did == <<"d", "i", "d">>

NumericSamples ==
    { <<"7">>, <<"1", "2">>, <<"1", "s", "t">>, <<"2", "n", "d">>, <<"3", "r", "d">>,
      <<"1", "4", "t", "h">>, <<"1", "2", "HALF">>, <<"HALF">>, <<"s", "t">>,
      <<"1", "s">>, <<"x", "1">>, king, kings }

NumericWords == (SeqsUpTo(RomanLetters, MaxNumeralLen) \ {<<>>}) \cup NumericSamples

InitNumeric ==
    /\ pc = "classify"
    /\ word \in NumericWords
    /\ variants = {}
    /\ wf_variants = {}
    /\ PipelineIdle
    /\ Locals0
    /\ TwinIdle
    /\ StagesIdle
    /\ SelectIdle
    /\ LemmaIdle
    /\ CleanIdle
    /\ RankIdle

ClassifyWord ==
    /\ pc = "classify"
    /\ numeric' = is_numeric_word(word)
    /\ pc' = "classified"
    /\ UNCHANGED <<extractVars, twin, variantVars, selectVars, lemmaVars, cleanVars,
                   rankVars, numericOthers>>

NextNumeric == ClassifyWord

SpecNumeric == InitNumeric /\ [][NextNumeric]_vars

-----------------------------------------------------------------------------
(* extract_words of pipeline/vocabulary/scripts/extract_words.py: the      *)
(* verses in the order of the three nested loops, the words of a verse one *)
(* by one                                                                  *)

CountTexts ==
    { <<"I", " ", "r", "o", "d", "e", ".">>,
      <<"1", "s", "t", " ", "K", "i", "n", "g", "s">>,
      <<"i", "v">>,
      <<"k", "i", "n", "g", "'", "s", " ", "d", "i", "d">>,
      <<"l", "i", "v", " ", "7">> }

CountCorpora ==
    { <<>> } \cup { <<OneChapterBook(Genesis, ts)>> :
                      ts \in SeqsUpTo(CountTexts, MaxCountVerses) \ {<<>>} }

InitWords ==
    /\ pc = "words"
    /\ bible \in CountCorpora
    /\ vocabulary = NoVocabulary
    /\ Locals0
    /\ DriverIdle
    /\ TwinIdle
    /\ StagesIdle
    /\ SelectIdle
    /\ LemmaIdle
    /\ CleanIdle
    /\ RankIdle

WordsFrame ==
    UNCHANGED <<extractVars, twin, variantVars, selectVars, lemmaVars, cleanVars,
                stopwords, proper_nouns, word_list, countOthers>>

\* lines 164-167: the next verse is cleaned and split
NextVerse ==
    /\ pc = "words"
    /\ verse_words = <<>>
    /\ verse_count < Len(BibleItems(bible))
    /\ verse_count' = verse_count + 1
    /\ verse_words' = split(clean_text(BibleItems(bible)[verse_count + 1].text))
    /\ UNCHANGED <<pc, word_counts, numeric_words_skipped, lemmatize_calls>>
    /\ WordsFrame

\* lines 171-173
SkipNumericWord ==
    /\ pc = "words"
    /\ verse_words /= <<>>
    /\ is_numeric_word(Head(verse_words))
    /\ numeric_words_skipped' = numeric_words_skipped + 1
    /\ verse_words' = Tail(verse_words)
    /\ UNCHANGED <<pc, word_counts, verse_count, lemmatize_calls>>
    /\ WordsFrame

\* lines 174-175, the dictionary answering with some pair of lemmas
CountWord ==
    /\ pc = "words"
    /\ verse_words /= <<>>
    /\ ~is_numeric_word(Head(verse_words))
    /\ \E noun, verb \in Lookups(Head(verse_words)) :
          word_counts' = counter_add(word_counts,
                                     lemmatize_word(Head(verse_words), noun, verb))
    /\ lemmatize_calls' = Append(lemmatize_calls, Head(verse_words))
    /\ verse_words' = Tail(verse_words)
    /\ UNCHANGED <<pc, verse_count, numeric_words_skipped>>
    /\ WordsFrame

\* line 182
ReturnCounts ==
    /\ pc = "words"
    /\ verse_words = <<>>
    /\ verse_count = Len(BibleItems(bible))
    /\ pc' = "extracted"
    /\ UNCHANGED <<word_counts, countVars>>
    /\ WordsFrame

NextWords == NextVerse \/ SkipNumericWord \/ CountWord \/ ReturnCounts

SpecWords == InitWords /\ [][NextWords]_vars

-----------------------------------------------------------------------------
(* main and run_step of pipeline/vocabulary/run_pipeline.py                *)

\* lines 54-62
pipeline_steps(sentences) ==
    <<"extract_words.py", "filter_stopwords.py", "filter_proper_nouns.py", "finalize.py">>
    \o (IF sentences THEN <<"extract_sentences.py">> ELSE <<>>)

\* mutant: a return code of 1 counts as success
run_step_lenient(returncode) == returncode <= 1

\* line 28: run_step's return value
run_step(returncode) == returncode = 0

Versions == {"niv", "kjv"}
ReturnCodes == 0..MaxReturnCode

InitRun ==
    /\ pc = "main"
    /\ PipelineIdle
    /\ Locals0
    /\ DriverIdle
    /\ TwinIdle
    /\ StagesIdle
    /\ SelectIdle
    /\ LemmaIdle
    /\ CleanIdle
    /\ RankIdle

RunFrame ==
    UNCHANGED <<extractVars, twin, variantVars, selectVars, lemmaVars, cleanVars,
                rankVars, runOthers>>

\* lines 32-62: the arguments are parsed and the list of steps is made
ParseArgs ==
    /\ pc = "main"
    /\ \E v \in Versions, sentences \in BOOLEAN :
          /\ version' = v
          /\ with_sentences' = sentences
          /\ steps' = pipeline_steps(sentences)
    /\ pc' = "steps"
    /\ UNCHANGED <<started, returncodes, exit_status, success_printed>>
    /\ RunFrame

\* lines 64-67: one turn of the loop; the script exits with some return code
RunStep ==
    /\ pc = "steps"
    /\ Len(started) < Len(steps)
    /\ \E returncode \in ReturnCodes :
          /\ started' = Append(started, steps[Len(started) + 1])
          /\ returncodes' = Append(returncodes, returncode)
          /\ IF run_step(returncode)
             THEN UNCHANGED <<pc, exit_status>>
             ELSE pc' = "exited" /\ exit_status' = 1
    /\ UNCHANGED <<version, with_sentences, steps, success_printed>>
    /\ RunFrame

\* lines 69-75 and the return of main
CompletePipeline ==
    /\ pc = "steps"
    /\ Len(started) = Len(steps)
    /\ success_printed' = TRUE
    /\ exit_status' = 0
    /\ pc' = "exited"
    /\ UNCHANGED <<version, with_sentences, steps, started, returncodes>>
    /\ RunFrame

NextRun == ParseArgs \/ RunStep \/ CompletePipeline

SpecRun == InitRun /\ [][NextRun]_vars

-----------------------------------------------------------------------------
(* process_batch and add_definitions of                                    *)
(* pipeline/vocabulary/scripts/add_definitions.py.  A word is a number; a  *)
(* definition the model returns is a record with the keys it has.          *)

\* word_list[j:j + BATCH_SIZE] for j in range(0, len(word_list), BATCH_SIZE)
make_batches(list) ==
    [b \in 1..((Len(list) + BATCH_SIZE - 1) \div BATCH_SIZE) |->
        SubSeq(list, (b - 1) * BATCH_SIZE + 1,
               IF b * BATCH_SIZE < Len(list) THEN b * BATCH_SIZE ELSE Len(list))]

\* {d["word"]: d for d in definitions}: a later entry replaces an earlier one
def_dict(definitions) ==
    [w \in { definitions[k].word : k \in 1..Len(definitions) } |->
        definitions[CHOOSE k \in 1..Len(definitions) :
                       /\ definitions[k].word = w
                       /\ \A j \in 1..Len(definitions) :
                             definitions[j].word = w => j <= k]]

\* mutant: every entry the model returned is a result
process_batch_all_entries(batch_words, definitions) ==
    IF definitions = <<>>
    THEN [done |-> TRUE, raised |-> FALSE, results |-> <<>>, failed |-> batch_words]
    ELSE IF \E k \in 1..Len(definitions) : "word" \notin DOMAIN definitions[k]
    THEN [done |-> TRUE, raised |-> TRUE, results |-> <<>>, failed |-> <<>>]
    ELSE LET dd == def_dict(definitions)
         IN [done |-> TRUE, raised |-> FALSE,
             results |-> definitions,
             failed |-> SelectSeq(batch_words, LAMBDA w : w \notin DOMAIN dd)]

\* lines 61-78; d["word"] raises KeyError for an entry without that key
process_batch(batch_words, definitions) ==
    IF definitions = <<>>
    THEN [done |-> TRUE, raised |-> FALSE, results |-> <<>>, failed |-> batch_words]
    ELSE IF \E k \in 1..Len(definitions) : "word" \notin DOMAIN definitions[k]
    THEN [done |-> TRUE, raised |-> TRUE, results |-> <<>>, failed |-> <<>>]
    ELSE LET dd == def_dict(definitions)
             found == SelectSeq(batch_words, LAMBDA w : w \in DOMAIN dd)
         IN [done |-> TRUE, raised |-> FALSE,
             results |-> [k \in 1..Len(found) |-> dd[found[k]]],
             failed |-> SelectSeq(batch_words, LAMBDA w : w \notin DOMAIN dd)]

\* for r in results: all_definitions[r["word"]] = r
merge_results(defs, results) ==
    LET new_words == { results[k].word : k \in 1..Len(results) }
    IN [w \in DOMAIN defs \cup new_words |->
           IF w \in new_words
           THEN results[CHOOSE k \in 1..Len(results) :
                           /\ results[k].word = w
                           /\ \A j \in 1..Len(results) : results[j].word = w => j <= k]
           ELSE defs[w]]

NotStarted == [done |-> FALSE, raised |-> FALSE, results |-> <<>>, failed |-> <<>>]

\* what llm_client.generate_definitions may return for a batch: nothing, an
\* entry for every word, entries for all words but the first together with
\* an entry for a word outside the batch, or a list with an entry that has
\* no "word" key
Definition(w, text) == [word |-> w, definition_korean |-> text]
OutsideWord(batch_words, list) ==
    IF Range(list) \subseteq Range(batch_words) THEN 0
    ELSE CHOOSE w \in Range(list) \ Range(batch_words) :
            \A v \in Range(list) \ Range(batch_words) : w <= v
Responses(batch_words, list) ==
    { <<>>,
      [k \in 1..Len(batch_words) |-> Definition(batch_words[k], "meaning")],
      [k \in 1..Len(batch_words) |->
          IF k = 1 THEN Definition(OutsideWord(batch_words, list), "stray")
          ELSE Definition(batch_words[k], "meaning")],
      <<[definition_korean |-> "meaning"]>> }

\* the word lists: distinct words, or the same list with its last word
\* replaced by its first
DistinctWords(n) == [k \in 1..n |-> k]
DefinitionWordLists ==
    LET lengths == { BATCH_SIZE * k + t : k \in 0..MaxFullBatches, t \in 0..MaxTailWords }
    IN { DistinctWords(n) : n \in lengths }
       \cup { [DistinctWords(n) EXCEPT ![n] = 1] : n \in { m \in lengths : m > BATCH_SIZE } }

InitDefinitions ==
    /\ pc = "create"
    /\ word_list \in DefinitionWordLists
    /\ word_counts = <<>>
    /\ stopwords = {}
    /\ proper_nouns = {}
    /\ PipelineIdle
    /\ Locals0
    /\ DriverIdle
    /\ TwinIdle
    /\ StagesIdle
    /\ SelectIdle
    /\ LemmaIdle
    /\ CleanIdle

DefinitionsFrame ==
    UNCHANGED <<extractVars, twin, variantVars, selectVars, lemmaVars, cleanVars,
                rankVars, defOthers>>

\* lines 103-128: nothing to do, or every batch is submitted to the pool
CreateBatches ==
    /\ pc = "create"
    /\ IF Len(word_list) = 0
       THEN pc' = "returned" /\ UNCHANGED futures
       ELSE /\ pc' = "first_round"
            /\ futures' = [b \in DOMAIN make_batches(word_list) |-> NotStarted]
    /\ UNCHANGED <<collected, all_definitions, all_failed, retry_done, retry_failed,
                   failed_words_file>>
    /\ DefinitionsFrame

\* a worker thread runs process_batch for its batch
RunBatch(b) ==
    /\ pc = "first_round"
    /\ ~futures[b].done
    /\ \E definitions \in Responses(make_batches(word_list)[b], word_list) :
          futures' = [futures EXCEPT
                         ![b] = process_batch(make_batches(word_list)[b], definitions)]
    /\ UNCHANGED <<pc, collected, all_definitions, all_failed, retry_done, retry_failed,
                   failed_words_file>>
    /\ DefinitionsFrame

\* lines 130-149: the coordinating thread takes a finished future
CollectFuture(b) ==
    /\ pc = "first_round"
    /\ futures[b].done
    /\ b \notin collected
    /\ collected' = collected \cup {b}
    /\ IF futures[b].raised
       THEN UNCHANGED <<all_definitions, all_failed>>
       ELSE /\ all_definitions' = merge_results(all_definitions, futures[b].results)
            /\ all_failed' = all_failed \o futures[b].failed
    /\ UNCHANGED <<pc, futures, retry_done, retry_failed, failed_words_file>>
    /\ DefinitionsFrame

\* lines 151-154
EndFirstRound ==
    /\ pc = "first_round"
    /\ collected = DOMAIN futures
    /\ pc' = IF all_failed /= <<>> THEN "retry_round" ELSE "returned"
    /\ UNCHANGED defVars
    /\ DefinitionsFrame

\* lines 163-166: the results of executor.map in the order of the batches;
\* an exception of a batch leaves add_definitions
RetryBatch ==
    /\ pc = "retry_round"
    /\ retry_done < Len(make_batches(all_failed))
    /\ \E definitions \in Responses(make_batches(all_failed)[retry_done + 1], word_list) :
          LET result == process_batch(make_batches(all_failed)[retry_done + 1], definitions)
          IN IF result.raised
             THEN /\ pc' = "raised"
                  /\ UNCHANGED <<all_definitions, retry_failed, retry_done>>
             ELSE /\ all_definitions' = merge_results(all_definitions, result.results)
                  /\ retry_failed' = retry_failed \o result.failed
                  /\ retry_done' = retry_done + 1
                  /\ UNCHANGED pc
    /\ UNCHANGED <<futures, collected, all_failed, failed_words_file>>
    /\ DefinitionsFrame

\* lines 168-170
EndRetryRound ==
    /\ pc = "retry_round"
    /\ retry_done = Len(make_batches(all_failed))
    /\ failed_words_file' = retry_failed
    /\ pc' = "returned"
    /\ UNCHANGED <<futures, collected, all_definitions, all_failed, retry_done,
                   retry_failed>>
    /\ DefinitionsFrame

NextDefinitions ==
    \/ CreateBatches
    \/ \E b \in DOMAIN futures : RunBatch(b)
    \/ \E b \in DOMAIN futures : CollectFuture(b)
    \/ EndFirstRound
    \/ RetryBatch
    \/ EndRetryRound

SpecDefinitions == InitDefinitions /\ [][NextDefinitions]_vars

-----------------------------------------------------------------------------
(* process_batch and main of                                               *)
(* pipeline/vocabulary/scripts/retry_missing_translations.py.  A sentence  *)
(* id is a number; a sentence tuple is its id.                             *)

\* lines 93-96 and 141-144
retry_batches(ids) ==
    [b \in 1..((Len(ids) + RETRY_BATCH_SIZE - 1) \div RETRY_BATCH_SIZE) |->
        SubSeq(ids, (b - 1) * RETRY_BATCH_SIZE + 1,
               IF b * RETRY_BATCH_SIZE < Len(ids) THEN b * RETRY_BATCH_SIZE ELSE Len(ids))]

\* next((t for t in translations if t.get("id") == n), None): its position,
\* 0 for None
first_with_id(translations, n) ==
    LET at == { k \in 1..Len(translations) : translations[k].id = n }
    IN IF at = {} THEN 0 ELSE CHOOSE k \in at : \A j \in at : k <= j

all_failed_result(sentences) == [done |-> TRUE, results |-> <<>>, failed |-> sentences]

\* mutant: every sentence of the batch is reported failed
retry_process_batch_all_failed(sentences, outcome) ==
    IF outcome.timeout \/ outcome.returncode /= 0 \/ outcome.translations = <<>>
    THEN all_failed_result(sentences)
    ELSE LET translated(n) ==
                 /\ first_with_id(outcome.translations, n) /= 0
                 /\ outcome.translations[first_with_id(outcome.translations, n)].korean /= ""
             ok == { n \in 1..Len(sentences) : translated(n) }
         IN [done |-> TRUE,
             results |-> [sid \in { sentences[n] : n \in ok } |->
                             LET n == CHOOSE m \in ok : sentences[m] = sid
                             IN outcome.translations[first_with_id(outcome.translations, n)].korean],
             failed |-> sentences]

\* lines 26-65: outcome is what subprocess.run and extract_json_from_response
\* gave
retry_process_batch(sentences, outcome) ==
    IF outcome.timeout \/ outcome.returncode /= 0 \/ outcome.translations = <<>>
    THEN all_failed_result(sentences)
    ELSE LET translated(n) ==
                 /\ first_with_id(outcome.translations, n) /= 0
                 /\ outcome.translations[first_with_id(outcome.translations, n)].korean /= ""
             ok == { n \in 1..Len(sentences) : translated(n) }
         IN [done |-> TRUE,
             results |-> [sid \in { sentences[n] : n \in ok } |->
                             LET n == CHOOSE m \in ok : sentences[m] = sid
                             IN outcome.translations[first_with_id(outcome.translations, n)].korean],
             failed |-> SelectSeq([n \in 1..Len(sentences) |->
                                      IF n \in ok THEN 0 ELSE sentences[n]],
                                  LAMBDA sid : sid /= 0)]

\* dict.update
dict_update(d, e) ==
    [k \in DOMAIN d \cup DOMAIN e |-> IF k \in DOMAIN e THEN e[k] ELSE d[k]]

\* the command times out, exits with a code other than 0, prints no JSON
\* array, translates every sentence, leaves the first translation empty, or
\* numbers its translations from 2
Outcomes(n) ==
    LET full == [k \in 1..n |-> [id |-> k, korean |-> "translation"]]
    IN { [timeout |-> TRUE, returncode |-> 0, translations |-> <<>>],
         [timeout |-> FALSE, returncode |-> 1, translations |-> full],
         [timeout |-> FALSE, returncode |-> 0, translations |-> <<>>],
         [timeout |-> FALSE, returncode |-> 0, translations |-> full],
         [timeout |-> FALSE, returncode |-> 0,
          translations |-> [full EXCEPT ![1] = [id |-> 1, korean |-> ""]]],
         [timeout |-> FALSE, returncode |-> 0,
          translations |-> [k \in 1..n |-> [id |-> k + 1, korean |-> "translation"]]] }

MissingIdLists ==
    { [k \in 1..n |-> k] :
        n \in {0, 1} \cup (RETRY_BATCH_SIZE..(RETRY_BATCH_SIZE + MaxExtraIds)) }

BatchIds(bs) == UNION { Range(bs[b]) : b \in DOMAIN bs }

InitRetry ==
    /\ pc = "load"
    /\ PipelineIdle
    /\ Locals0
    /\ DriverIdle
    /\ TwinIdle
    /\ StagesIdle
    /\ SelectIdle
    /\ LemmaIdle
    /\ CleanIdle
    /\ RankIdle

RetryFrame ==
    UNCHANGED <<extractVars, twin, variantVars, selectVars, lemmaVars, cleanVars,
                rankVars, retryOthers>>

\* lines 75-99: the ids without a translation and their batches
LoadMissing ==
    /\ pc = "load"
    /\ \E ids \in MissingIdLists :
          /\ missing_ids' = ids
          /\ batches' = retry_batches(ids)
          /\ submissions' = [sid \in Range(ids) |-> 0]
          /\ pc' = IF ids = <<>> THEN "done" ELSE "loop"
    /\ UNCHANGED <<retry_round, round_futures, round_collected, round_translations,
                   failed_ids, all_translations>>
    /\ RetryFrame

\* lines 105-118: a round begins and its batches are submitted
BeginRound ==
    /\ pc = "loop"
    /\ retry_round < max_retries
    /\ batches /= <<>>
    /\ retry_round' = retry_round + 1
    /\ round_translations' = <<>>
    /\ failed_ids' = <<>>
    /\ round_futures' = [b \in DOMAIN batches |->
                            [done |-> FALSE, results |-> <<>>, failed |-> <<>>]]
    /\ round_collected' = {}
    /\ submissions' = [sid \in DOMAIN submissions |->
                          submissions[sid]
                          + Cardinality({ <<b, k>> \in (DOMAIN batches) \X (1..RETRY_BATCH_SIZE) :
                                            k <= Len(batches[b]) /\ batches[b][k] = sid })]
    /\ pc' = "collect"
    /\ UNCHANGED <<missing_ids, batches, all_translations>>
    /\ RetryFrame

\* a worker thread runs process_batch for its batch
RunRetryBatch(b) ==
    /\ pc = "collect"
    /\ ~round_futures[b].done
    /\ \E outcome \in Outcomes(Len(batches[b])) :
          round_futures' = [round_futures EXCEPT
                               ![b] = retry_process_batch(batches[b], outcome)]
    /\ UNCHANGED <<pc, missing_ids, batches, retry_round, round_collected,
                   round_translations, failed_ids, all_translations, submissions>>
    /\ RetryFrame

\* lines 120-127: the coordinating thread takes a finished future
CollectRetryBatch(b) ==
    /\ pc = "collect"
    /\ round_futures[b].done
    /\ b \notin round_collected
    /\ round_collected' = round_collected \cup {b}
    /\ round_translations' = dict_update(round_translations, round_futures[b].results)
    /\ failed_ids' = failed_ids \o round_futures[b].failed
    /\ UNCHANGED <<pc, missing_ids, batches, retry_round, round_futures,
                   all_translations, submissions>>
    /\ RetryFrame

\* lines 132-150: the round's translations are kept and the failed ids are
\* batched for the next round
EndRound ==
    /\ pc = "collect"
    /\ round_collected = DOMAIN round_futures
    /\ all_translations' = dict_update(all_translations, round_translations)
    /\ batches' = retry_batches(failed_ids)
    /\ pc' = "loop"
    /\ UNCHANGED <<missing_ids, retry_round, round_futures, round_collected,
                   round_translations, failed_ids, submissions>>
    /\ RetryFrame

\* line 105 with the range used up, or lines 106-107; then lines 152-174
LeaveLoop ==
    /\ pc = "loop"
    /\ retry_round = max_retries \/ batches = <<>>
    /\ pc' = "done"
    /\ UNCHANGED retryVars
    /\ RetryFrame

NextRetry ==
    \/ LoadMissing
    \/ BeginRound
    \/ \E b \in DOMAIN round_futures : RunRetryBatch(b)
    \/ \E b \in DOMAIN round_futures : CollectRetryBatch(b)
    \/ EndRound
    \/ LeaveLoop

\* every worker returns (the command is run with a timeout) and the
\* coordinating thread is scheduled
SpecRetry == InitRetry /\ [][NextRetry]_vars /\ WF_vars(NextRetry)

-----------------------------------------------------------------------------
(* pipeline/vocabulary/scripts/hebrew_pipeline.py: extract_words,          *)
(* filter_words, map_to_dictionary, create_sentence_mapping and main.  A   *)
(* dict that is iterated is a sequence of entries in insertion order; a    *)
(* chapter and a verse are numbered by their position.                     *)

DigitChars == <<"0", "1", "2", "3", "4", "5", "6", "7", "8", "9">>

\* str(n) of the f-strings
RECURSIVE Decimal(_)
Decimal(n) ==
    IF n < 10 THEN <<DigitChars[n + 1]>>
    ELSE Decimal(n \div 10) \o <<DigitChars[(n % 10) + 1]>>

\* str.split('/')
RECURSIVE split_slash(_, _, _, _)
split_slash(t, k, current, acc) ==
    IF k > Len(t) THEN Append(acc, current)
    ELSE IF t[k] = "/" THEN split_slash(t, k + 1, <<>>, Append(acc, current))
    ELSE split_slash(t, k + 1, Append(current, t[k]), acc)

\* line 91
is_strongs_code(code) ==
    /\ Len(code) > 1
    /\ code[1] = "H"
    /\ isdigit(SubSeq(code, 2, Len(code)))

\* line 98
hebrew_location(book, chapter_idx, verse_idx) ==
    book \o <<"-">> \o Decimal(chapter_idx) \o <<"-">> \o Decimal(verse_idx)

\* line 212
hebrew_sentence_id(book, chapter_idx, verse_idx) ==
    ReplaceSpace(Lower(book)) \o <<"-">> \o Decimal(chapter_idx) \o <<"-">>
        \o Decimal(verse_idx)

\* the codes of the words of the corpus in the order of the loops of lines
\* 82-90, each with its verse and the main tag of its word
HebrewCodes(data) ==
    Flatten([b \in 1..Len(data) |->
      Flatten([c \in 1..Len(data[b].chapters) |->
        Flatten([v \in 1..Len(data[b].chapters[c]) |->
          Flatten([w \in 1..Len(data[b].chapters[c][v]) |->
            LET word_data == data[b].chapters[c][v][w]
                codes == split_slash(word_data.strongs_codes, 1, <<>>, <<>>)
                tags == split_slash(word_data.grammar_tags, 1, <<>>, <<>>)
            IN [k \in 1..Len(codes) |->
                   [code |-> codes[k], tag |-> tags[Len(tags)],
                    location |-> hebrew_location(data[b].book, c, v)]]])])])])

\* lines 92-100 for one code
count_code(words, item) ==
    IF ~is_strongs_code(item.code) THEN words
    ELSE IF \E k \in 1..Len(words) : words[k].strongs = item.code
    THEN [k \in 1..Len(words) |->
             IF words[k].strongs /= item.code THEN words[k]
             ELSE [strongs |-> item.code,
                   count |-> words[k].count + 1,
                   tags |-> words[k].tags \cup {item.tag},
                   locations |->
                       IF /\ Len(words[k].locations) < 10
                          /\ item.location \notin Range(words[k].locations)
                       THEN Append(words[k].locations, item.location)
                       ELSE words[k].locations]]
    ELSE Append(words, [strongs |-> item.code, count |-> 1, tags |-> {item.tag},
                        locations |-> <<item.location>>])

RECURSIVE count_codes(_, _)
count_codes(words, items) ==
    IF items = <<>> THEN words ELSE count_codes(count_code(words, Head(items)), Tail(items))

hebrew_extract_words(data) == count_codes(<<>>, HebrewCodes(data))

FILTER_TAGS == { <<"H", "N", "p">> }
FUNCTION_WORD_TAGS ==
    { <<"H", "R">>, <<"H", "C">>, <<"H", "T", "d">>, <<"H", "T", "o">>, <<"H", "T", "r">>,
      <<"H", "D">>, <<"H", "T", "i">>, <<"H", "T", "e">>, <<"H", "T", "a">>,
      <<"H", "T", "m">> }

\* lines 124-141 with include_function_words = False
filter_words(words) ==
    SelectSeq(words, LAMBDA entry : /\ entry.tags \cap FILTER_TAGS = {}
                                    /\ ~(entry.tags \subseteq FUNCTION_WORD_TAGS))

\* lines 161-190: the entries the dictionary knows, sorted by count, ranked
map_to_dictionary(words, dict) ==
    LET found == SelectSeq(words, LAMBDA entry : entry.strongs \in dict)
        sorted == most_common_from(found, 1, <<>>)
    IN [k \in 1..Len(sorted) |->
           [strongs |-> sorted[k].strongs, count |-> sorted[k].count,
            locations |-> sorted[k].locations, rank |-> k]]

\* lines 205-219: the keys of the mapping with the verse each stands for
create_sentence_mapping(data) ==
    LET verses == Flatten([b \in 1..Len(data) |->
                    Flatten([c \in 1..Len(data[b].chapters) |->
                      [v \in 1..Len(data[b].chapters[c]) |->
                          [id |-> hebrew_sentence_id(data[b].book, c, v),
                           book |-> data[b].book, chapter |-> c, verse |-> v]]])])
    IN [id \in { verses[k].id : k \in 1..Len(verses) } |->
           LET last == CHOOSE k \in 1..Len(verses) :
                          /\ verses[k].id = id
                          /\ \A j \in 1..Len(verses) : verses[j].id = id => j <= k
           IN [book |-> verses[last].book, chapter |-> verses[last].chapter,
               verse |-> verses[last].verse]]

\* lines 281-282
rename_locations(vocab) ==
    [k \in 1..Len(vocab) |->
        [strongs |-> vocab[k].strongs, count |-> vocab[k].count, rank |-> vocab[k].rank,
         sentence_ids |-> vocab[k].locations]]

\* words of a Hebrew verse: a noun with a prefix, used twice in one verse; a
\* proper noun; a conjunction
NounWord == [text |-> <<"b", "/", "r">>,
             strongs_codes |-> <<"H", "b", "/", "H", "1">>,
             grammar_tags |-> <<"H", "R", "/", "N", "c", "f", "s", "a">>]
NameWord == [text |-> <<"m">>, strongs_codes |-> <<"H", "2">>,
             grammar_tags |-> <<"H", "N", "p">>]
AndWord == [text |-> <<"w">>, strongs_codes |-> <<"H", "3">>,
            grammar_tags |-> <<"H", "C">>]
HebrewVerses == { <<NounWord, NameWord, NounWord>>, <<AndWord>> }
HebrewBookNames == { Lower(Genesis), Genesis, <<"I", " ", "K", "i", "n", "g", "s">> }

\* one or two books of one chapter each, and a book of two chapters in
\* which the noun is in twelve verses
HebrewCorpora ==
    LET books == { [book |-> name, chapters |-> <<verses>>] :
                     name \in HebrewBookNames,
                     verses \in SeqsUpTo(HebrewVerses, MaxHebrewVerses) \ {<<>>} }
        six == [v \in 1..6 |-> <<NounWord>>]
    IN { <<b>> : b \in books }
       \cup { <<p[1], p[2]>> : p \in { q \in books \X books : q[1].book /= q[2].book } }
       \cup { <<[book |-> name, chapters |-> <<six, six>>]>> : name \in HebrewBookNames }

StrongsDictionaries == { {<<"H", "1">>, <<"H", "2">>, <<"H", "3">>}, {<<"H", "2">>} }

InitHebrew ==
    /\ pc = "load"
    /\ PipelineIdle
    /\ Locals0
    /\ DriverIdle
    /\ TwinIdle
    /\ StagesIdle
    /\ SelectIdle
    /\ LemmaIdle
    /\ CleanIdle
    /\ RankIdle

HebrewFrame ==
    UNCHANGED <<extractVars, twin, variantVars, selectVars, lemmaVars, cleanVars,
                rankVars, hebrewOthers>>

\* lines 269-271
LoadHebrewData ==
    /\ pc = "load"
    /\ bible_data' \in HebrewCorpora
    /\ strongs_dict' \in StrongsDictionaries
    /\ pc' = "extract"
    /\ UNCHANGED <<words_data, filtered_words, hebrew_vocabulary, hebrew_sentences>>
    /\ HebrewFrame

\* line 274
HebrewExtractWords ==
    /\ pc = "extract"
    /\ words_data' = hebrew_extract_words(bible_data)
    /\ pc' = "filter"
    /\ UNCHANGED <<bible_data, strongs_dict, filtered_words, hebrew_vocabulary,
                   hebrew_sentences>>
    /\ HebrewFrame

\* line 275
HebrewFilterWords ==
    /\ pc = "filter"
    /\ filtered_words' = filter_words(words_data)
    /\ pc' = "map"
    /\ UNCHANGED <<bible_data, strongs_dict, words_data, hebrew_vocabulary,
                   hebrew_sentences>>
    /\ HebrewFrame

\* line 276
HebrewMapToDictionary ==
    /\ pc = "map"
    /\ hebrew_vocabulary' = map_to_dictionary(filtered_words, strongs_dict)
    /\ pc' = "sentences"
    /\ UNCHANGED <<bible_data, strongs_dict, words_data, filtered_words,
                   hebrew_sentences>>
    /\ HebrewFrame

\* line 277
HebrewCreateSentenceMapping ==
    /\ pc = "sentences"
    /\ hebrew_sentences' = create_sentence_mapping(bible_data)
    /\ pc' = "rename"
    /\ UNCHANGED <<bible_data, strongs_dict, words_data, filtered_words,
                   hebrew_vocabulary>>
    /\ HebrewFrame

\* lines 280-285
HebrewSaveOutput ==
    /\ pc = "rename"
    /\ hebrew_vocabulary' = rename_locations(hebrew_vocabulary)
    /\ pc' = "saved"
    /\ UNCHANGED <<bible_data, strongs_dict, words_data, filtered_words,
                   hebrew_sentences>>
    /\ HebrewFrame

NextHebrew ==
    \/ LoadHebrewData
    \/ HebrewExtractWords
    \/ HebrewFilterWords
    \/ HebrewMapToDictionary
    \/ HebrewCreateSentenceMapping
    \/ HebrewSaveOutput

SpecHebrew == InitHebrew /\ [][NextHebrew]_vars

-----------------------------------------------------------------------------
(* Properties                                                              *)

\* the words processed so far, by position
Processed == 1..Len(updated_words)

\* the candidate list of a word (line 213)
CandidatesOf(w) ==
    IF w \in DOMAIN word_to_sentences THEN word_to_sentences[w] ELSE <<>>

CandidateIds(w) == { CandidatesOf(w)[k].id : k \in 1..Len(CandidatesOf(w)) }

Items == BibleItems(bible)
ItemId(item) == generate_sentence_id(item.book, item.chapter, item.verse)
VocabularyWords == { vocabulary.words[k].word : k \in 1..Len(vocabulary.words) }

\* the index as build_inverted_index returned it
BuiltIndex ==
    index_verses(Items, 1, all_variants, [index |-> <<>>, sentences |-> <<>>]).index

\* C1: a processed word's sentence_ids is empty exactly when its candidate
\* list holds fewer than MIN_SENTENCES_PER_WORD distinct sentence ids.
C1_EmptyIffFewCandidates ==
    \A j \in Processed :
        (updated_words[j].sentence_ids = <<>>)
            <=> (Cardinality(CandidateIds(updated_words[j].word)) < MIN_SENTENCES_PER_WORD)

\* a word whose list has MIN entries or more but, the same verse being listed
\* twice, fewer than MIN distinct ids, and so got no sentences
C1_Witness ==
    \E j \in Processed :
        LET w == updated_words[j].word
        IN /\ Len(CandidatesOf(w)) >= MIN_SENTENCES_PER_WORD
           /\ Cardinality(CandidateIds(w)) = MIN_SENTENCES_PER_WORD - 1
           /\ updated_words[j].sentence_ids = <<>>

\* C2: a recorded sentence_ids repeats no id and has 0 or MIN..MAX entries.
C2_SelectionSize ==
    \A j \in Processed :
        LET ids == updated_words[j].sentence_ids
        IN /\ Cardinality(Range(ids)) = Len(ids)
           /\ \/ Len(ids) = 0
              \/ /\ Len(ids) >= MIN_SENTENCES_PER_WORD
                 /\ Len(ids) <= MAX_SENTENCES_PER_WORD

\* a word with more than MAX distinct candidates, one of them listed twice,
\* that got exactly MAX sentences
C2_Witness ==
    \E j \in Processed :
        LET w == updated_words[j].word
        IN /\ Cardinality(CandidateIds(w)) > MAX_SENTENCES_PER_WORD
           /\ Len(CandidatesOf(w)) > Cardinality(CandidateIds(w))
           /\ Len(updated_words[j].sentence_ids) = MAX_SENTENCES_PER_WORD

\* two words, L1 before L2, with the same MAX candidates, both processed
C3_Scenario ==
    /\ pc = "done"
    /\ Len(updated_words) = 2
    /\ LET L1 == updated_words[1].word
           L2 == updated_words[2].word
       IN /\ CandidateIds(L1) = CandidateIds(L2)
          /\ Len(CandidatesOf(L1)) = MAX_SENTENCES_PER_WORD
          /\ Len(CandidatesOf(L2)) = MAX_SENTENCES_PER_WORD
          /\ Cardinality(CandidateIds(L1)) = MAX_SENTENCES_PER_WORD

\* C3 as stated: L1 claims all candidates, and L2's selection excludes every
\* id L1 selected or has fewer than MAX ids.
C3_Original ==
    C3_Scenario =>
        LET sel1 == updated_words[1].sentence_ids
            sel2 == updated_words[2].sentence_ids
        IN /\ Range(sel1) = CandidateIds(updated_words[1].word)
           /\ \/ Range(sel2) \cap Range(sel1) = {}
              \/ Len(sel2) < MAX_SENTENCES_PER_WORD

\* C3 amended: L1 claims all candidates, and L2 is given the same MAX ids
\* again: used sentences are sorted last, not excluded.
C3_SharedCandidatesReused ==
    C3_Scenario =>
        LET sel1 == updated_words[1].sentence_ids
            sel2 == updated_words[2].sentence_ids
        IN /\ Range(sel1) = CandidateIds(updated_words[1].word)
           /\ Range(sel2) = Range(sel1)
           /\ Len(sel2) = MAX_SENTENCES_PER_WORD

C3_Witness == C3_Scenario /\ updated_words[1].word # updated_words[2].word

\* C4: the id of a verse shorter than MIN_SENTENCE_LENGTH or longer than
\* MAX_SENTENCE_LENGTH is in no candidate list, in no sentence_ids and in
\* neither sentence store; a verse of length exactly MIN or MAX is indexed.
C4_LengthFilter ==
    pc # "build" =>
        LET items == Items
        IN \A n \in 1..Len(items) :
            LET item == items[n]
                sid  == ItemId(item)
                len  == Len(item.text)
            IN /\ (len < MIN_SENTENCE_LENGTH \/ len > MAX_SENTENCE_LENGTH) =>
                    /\ \A w \in DOMAIN word_to_sentences : sid \notin CandidateIds(w)
                    /\ \A j \in Processed : sid \notin Range(updated_words[j].sentence_ids)
                    /\ sid \notin DOMAIN all_sentences
                    /\ sid \notin DOMAIN output_sentences
               /\ (len = MIN_SENTENCE_LENGTH \/ len = MAX_SENTENCE_LENGTH) =>
                    /\ sid \in DOMAIN all_sentences
                    /\ \A t \in extract_words_from_text(item.text) \cap DOMAIN all_variants :
                          sid \in CandidateIds(all_variants[t])

\* a corpus with a verse one character too short and a verse of exactly the
\* greatest length, both holding a word of the vocabulary, after the index
\* was built; the second is a candidate
C4_Witness ==
    /\ pc = "select"
    /\ \E a, b \in 1..Len(Items) :
          /\ Len(Items[a].text) = MIN_SENTENCE_LENGTH - 1
          /\ Len(Items[b].text) = MAX_SENTENCE_LENGTH
          /\ extract_words_from_text(Items[a].text) \cap DOMAIN all_variants # {}
          /\ \E w \in DOMAIN word_to_sentences : ItemId(Items[b]) \in CandidateIds(w)

\* C5: every vocabulary word is mapped to itself in the variant table, in
\* whatever order the vocabulary set was iterated; a verse within the length
\* bounds that contains the word as a token is a candidate of the word, and
\* not of another word that reaches the verse through that token only.
C5_IdentityWins ==
    pc # "build" =>
        LET items == Items
            words == VocabularyWords
        IN /\ \A L \in words : all_variants[L] = L
           /\ \A n \in 1..Len(items) :
                 LET item   == items[n]
                     tokens == extract_words_from_text(item.text)
                 IN in_length_bounds(Len(item.text)) =>
                       \A L \in words \cap tokens :
                           /\ ItemId(item) \in CandidateIds(L)
                           /\ \A M \in words \ {L} :
                                 (get_word_variants(M) \cap tokens \subseteq {L})
                                     => ItemId(item) \notin CandidateIds(M)

\* the vocabulary holds a word and its plural, which is a generated variant
\* of the word, and a verse holds the plural only
C5_Witness ==
    /\ pc = "select"
    /\ \E L, M \in VocabularyWords :
          /\ L # M
          /\ L \in get_word_variants(M)
          /\ \E n \in 1..Len(Items) :
                /\ in_length_bounds(Len(Items[n].text))
                /\ extract_words_from_text(Items[n].text) \cap DOMAIN all_variants = {L}
                /\ ItemId(Items[n]) \in CandidateIds(L)

\* C6: used_sentences only grows, and after every step it holds every id of
\* every selection recorded so far, so a word's ids are in it before
\* select_sentences_for_word runs for the next word.
C6_UsedBeforeNextWord ==
    [][ /\ used_sentences \subseteq used_sentences'
        /\ \A j \in 1..Len(updated_words') :
              Range(updated_words'[j].sentence_ids) \subseteq used_sentences' ]_vars

\* a word got sentences and another word is still to be processed
C6_Witness ==
    /\ pc = "select"
    /\ i < Len(vocabulary.words)
    /\ \E j \in Processed : updated_words[j].sentence_ids # <<>>

\* C7: at the end the keys of the sentence store are the ids referenced by
\* the output words, they are used_sentences, and total_sentences counts them.
C7_StoreMatchesWords ==
    pc = "done" =>
        LET referenced ==
              UNION { Range(updated_vocabulary.words[j].sentence_ids) :
                        j \in 1..Len(updated_vocabulary.words) }
        IN /\ DOMAIN output_sentences = referenced
           /\ DOMAIN output_sentences = used_sentences
           /\ updated_vocabulary.metadata.total_sentences = Cardinality(referenced)

\* two words share a sentence, which the store holds once, and the second
\* word also has a sentence of its own
C7_Witness ==
    /\ pc = "done"
    /\ Len(updated_vocabulary.words) = 2
    /\ Range(updated_vocabulary.words[1].sentence_ids)
         \cap Range(updated_vocabulary.words[2].sentence_ids) # {}
    /\ Range(updated_vocabulary.words[2].sentence_ids)
         \ Range(updated_vocabulary.words[1].sentence_ids) # {}

\* the same elements, each as often
SameElements(s, t) ==
    /\ Len(s) = Len(t)
    /\ \A x \in Range(s) \cup Range(t) :
          Cardinality({ k \in 1..Len(s) : s[k] = x })
              = Cardinality({ k \in 1..Len(t) : t[k] = x })

\* C8 as stated: after build_inverted_index returned, no step changes the
\* index: every candidate list keeps its elements and their order.
C8_Original ==
    [][ pc = "select" =>
          /\ word_to_sentences' = word_to_sentences
          /\ all_sentences' = all_sentences ]_vars

\* C8 amended: after build_inverted_index returned, no step adds or removes
\* a word or a candidate of the index or changes the verse store or the
\* variant table; the order of a candidate list may change.
C8_IndexKeepsElements ==
    [][ pc = "select" =>
          /\ DOMAIN word_to_sentences' = DOMAIN word_to_sentences
          /\ \A w \in DOMAIN word_to_sentences :
                SameElements(word_to_sentences'[w], word_to_sentences[w])
          /\ all_sentences' = all_sentences
          /\ all_variants' = all_variants ]_vars

\* a candidate list is no longer in the order in which it was built, and a
\* list of more than MAX candidates went through a selection
C8_Witness ==
    /\ pc = "done"
    /\ word_to_sentences # BuiltIndex
    /\ \E j \in Processed :
          Len(CandidatesOf(updated_words[j].word)) > MAX_SENTENCES_PER_WORD

GenesisId == <<"g", "e", "n", "e", "s", "i", "s", "-", "1", "-", "1">>

C9_Scenario ==
    /\ bible = GenesisCorpus
    /\ vocabulary = Vocabulary(<<create>>)

\* C9: "created" is a variant of "create"; with the single verse Genesis 1:1
\* and the vocabulary [create] the verse becomes the one candidate of
\* "create", and select_sentences_for_word returns exactly [genesis-1-1],
\* which a threshold of 1 and a limit of 5 accept.
C9_GenesisScenario ==
    /\ created \in get_word_variants(create)
    /\ (C9_Scenario /\ pc # "build") =>
          /\ all_variants[created] = create
          /\ word_to_sentences =
                (create :> <<[id |-> GenesisId, length |-> 78,
                              book |-> Genesis]>>)
          /\ i = 1 =>
                /\ sentence_ids = <<GenesisId>>
                /\ Len(sentence_ids) >= 1
                /\ Len(sentence_ids) <= MAX_SENTENCES_PER_WORD

C9_Witness ==
    /\ C9_Scenario
    /\ i = 1
    /\ sentence_ids # <<>>

\* C10: a word is among its own variants, in both implementations, and a
\* word of fewer than 2 characters has no other variant.
C10_VariantsContainWord ==
    pc = "expanded" =>
        /\ word \in variants
        /\ word \in wf_variants
        /\ Len(word) < 2 => (variants = {word} /\ wf_variants = {word})

C10_Witness ==
    /\ pc = "expanded"
    /\ Len(word) = 1
    /\ variants = {word}

\* C11: for a lemma of at least 2 characters, in both implementations: one
\* that ends in a consonant followed by "y" has the variant with "y" replaced
\* by "ies" and does not have lemma + "s"; one that ends in none of s, x, z,
\* ch, sh and not in consonant + "y" has the variant lemma + "s".
C11_PluralRules ==
    (pc = "expanded" /\ Len(word) >= 2) =>
        LET ies == DropLast(word, 1) \o <<"i", "e", "s">>
            s   == word \o <<"s">>
        IN /\ ConsonantY(word) =>
                /\ ies \in variants /\ ies \in wf_variants
                /\ s \notin variants /\ s \notin wf_variants
           /\ (~SibilantEnd(word) /\ ~ConsonantY(word)) =>
                /\ s \in variants /\ s \in wf_variants

C11_Witness ==
    /\ pc = "expanded"
    /\ ConsonantY(word)
    /\ DropLast(word, 1) \o <<"i", "e", "s">> \in variants \cap wf_variants
    /\ word \o <<"s">> \notin variants \cup wf_variants

PositionIn(seq, e) == CHOOSE k \in 1..Len(seq) : seq[k] = e

\* sub keeps a part of seq, in seq's order
KeepsOrder(sub, seq) ==
    /\ \A k \in 1..Len(sub) : \E j \in 1..Len(seq) : seq[j] = sub[k]
    /\ \A x, y \in 1..Len(sub) :
            x < y => PositionIn(seq, sub[x]) < PositionIn(seq, sub[y])

FilterStages == {"filter_stopwords", "filter_proper_nouns", "finalize"}

C13_Ranked ==
    /\ pc = "ranked" =>
          /\ \A k \in 1..Len(word_list) : word_list[k].rank = k
          /\ \A k \in 1..(Len(word_list) - 1) :
                word_list[k].count >= word_list[k + 1].count
    /\ pc /= "ranked" =>
          \A k \in 1..Len(word_list) : "rank" \notin DOMAIN word_list[k]

C13_FilterStep ==
    pc \in FilterStages =>
        /\ KeepsOrder(word_list', word_list)
        /\ Len(word_list') <= Len(word_list)

\* C13: the final list carries the ranks 1..n in list order, a rank exists
\* only once every filter has run, counts do not increase along the ranks,
\* and each filter removes entries without reordering those it keeps.
C13_DenseMonotoneRanks == []C13_Ranked /\ [][C13_FilterStep]_vars

C13_Witness ==
    /\ pc = "ranked"
    /\ Len(word_list) = 2
    /\ Len(word_counts) = MaxCountWords
    /\ word_list[1].count > word_list[2].count
    /\ word_counts[1].count < word_counts[2].count

KingsMenTokens ==
    << <<"t", "h", "e">>,
       <<"k", "i", "n", "g">>,
       <<"m", "e", "n">>,
       <<"b", "r", "a", "v", "e">>,
       <<"a", "n", "d">>,
       <<"t", "r", "u", "e">>,
       <<"d", "o", "n", "t">>,
       <<"y", "i", "e", "l", "d">> >>

\* C14: clean_text followed by split turns "The king's men-brave and
\* true-don't yield." (the dashes are em dashes) into exactly the tokens
\* the, king, men, brave, and, true, dont, yield; and the tokens of any text
\* are made of lower-case letters, digits and underscores only.
C14_KingsMenTokens ==
    pc = "cleaned" =>
        /\ raw_text = KingsMenText => clean_tokens = KingsMenTokens
        /\ \A k \in 1..Len(clean_tokens) :
              /\ clean_tokens[k] /= <<>>
              /\ \A j \in 1..Len(clean_tokens[k]) :
                    /\ IsWordChar(clean_tokens[k][j])
                    /\ clean_tokens[k][j] \notin UpperSet

C14_Witness ==
    /\ pc = "cleaned"
    /\ raw_text = KingsMenText
    /\ Len(clean_tokens) = Len(KingsMenTokens)
    /\ clean_tokens[Len(clean_tokens) - 1] = KingsMenTokens[Len(KingsMenTokens) - 1]

\* the positions in the iteration order of the words that generate v
Generators(v) ==
    { k \in 1..Len(variant_order) : v \in get_word_variants(variant_order[k]) }

\* the variants that two vocabulary words generate and that are no
\* vocabulary word themselves
CollidingVariants ==
    { v \in DOMAIN all_variants :
        v \notin VocabularyWords /\ Cardinality(Generators(v)) >= 2 }

\* C15 as stated: a colliding variant is mapped to the word processed last.
C15_Original ==
    pc /= "build" =>
        \A v \in CollidingVariants :
            all_variants[v] =
                variant_order[CHOOSE k \in Generators(v) : \A j \in Generators(v) : j <= k]

\* C15: a variant that two different lemmas generate and that is not itself
\* a lemma is mapped in all_variants to the lemma that was processed first.
C15_FirstWriteWins ==
    pc /= "build" =>
        \A v \in CollidingVariants :
            all_variants[v] =
                variant_order[CHOOSE k \in Generators(v) : \A j \in Generators(v) : k <= j]

C15_Witness ==
    /\ pc = "select"
    /\ variant_order = <<use, us>>
    /\ used_form \in CollidingVariants
    /\ all_variants[used_form] = use
    /\ use \in DOMAIN word_to_sentences

ListIds == { candidate_list[k].id : k \in 1..Len(candidate_list) }
ListBooks == { candidate_list[k].book : k \in 1..Len(candidate_list) }
BookOfId(id) ==
    LET k == CHOOSE j \in 1..Len(candidate_list) : candidate_list[j].id = id
    IN candidate_list[k].book
SelectedBooks == { BookOfId(selected_ids[k]) : k \in 1..Len(selected_ids) }
Smaller(a, b) == IF a < b THEN a ELSE b

\* C16: the returned ids come from min(MAX_SENTENCES_PER_WORD, number of
\* distinct books among the candidates) distinct books, and the fill pass
\* adds ids only when the diversity pass stopped short of
\* MAX_SENTENCES_PER_WORD.
C16_BookDiversity ==
    pc = "chosen" =>
        LET diverse == first_pass(candidate_list, 1, <<>>, {})
        IN /\ Cardinality(SelectedBooks) =
                Smaller(MAX_SENTENCES_PER_WORD, Cardinality(ListBooks))
           /\ selected_ids /= diverse => Len(diverse) < MAX_SENTENCES_PER_WORD
           /\ Len(selected_ids) > Cardinality(SelectedBooks) =>
                Cardinality(ListBooks) < MAX_SENTENCES_PER_WORD

C16_Witness ==
    /\ pc = "chosen"
    /\ Cardinality(ListBooks) > MAX_SENTENCES_PER_WORD
    /\ Cardinality(SelectedBooks) = MAX_SENTENCES_PER_WORD

UnusedIds == ListIds \ used_ids

\* C17 as stated: an id already used is returned only if every candidate id
\* that is not used is returned too.
C17_Original ==
    pc = "chosen" =>
        \A k \in 1..Len(selected_ids) :
            selected_ids[k] \in used_ids => UnusedIds \subseteq Range(selected_ids)

\* C17: an id already used is returned only if every candidate id that is
\* not used is returned too, or if it comes from a book none of whose
\* candidates is unused (the diversity pass took it for its book).
C17_UnusedPreferredWithinBook ==
    pc = "chosen" =>
        \A k \in 1..Len(selected_ids) :
            selected_ids[k] \in used_ids =>
                \/ UnusedIds \subseteq Range(selected_ids)
                \/ \A u \in UnusedIds : BookOfId(u) /= BookOfId(selected_ids[k])

C17_Witness ==
    /\ pc = "chosen"
    /\ \E k \in 1..Len(selected_ids) : selected_ids[k] \in used_ids
    /\ ~(UnusedIds \subseteq Range(selected_ids))
    /\ Cardinality(ListBooks) = MIN_SENTENCES_PER_WORD

\* the word about to be processed has no candidates or fewer than
\* MIN_SENTENCES_PER_WORD distinct ones
NextWordIsShort ==
    /\ pc = "select"
    /\ i < Len(vocabulary.words)
    /\ Cardinality(CandidateIds(vocabulary.words[i + 1].word)) < MIN_SENTENCES_PER_WORD

C18_ShortWordStep ==
    NextWordIsShort =>
        /\ i' = i + 1
        /\ updated_words'[i + 1].word = vocabulary.words[i + 1].word
        /\ updated_words'[i + 1].sentence_ids = <<>>
        /\ used_sentences' = used_sentences
        /\ output_sentences' = output_sentences

\* C18: a word with no candidates or fewer than MIN_SENTENCES_PER_WORD
\* distinct candidates is processed without error: the iteration runs, records
\* sentence_ids = [] for the word and leaves used_sentences and the sentence
\* store as they were.
C18_ShortWordLeavesStateAlone ==
    [](NextWordIsShort => ENABLED ProcessWord) /\ [][C18_ShortWordStep]_vars

\* a word with one candidate was given no sentences after an earlier word
\* had filled the store
C18_Witness ==
    /\ Len(updated_words) >= 2
    /\ updated_words[Len(updated_words)].sentence_ids = <<>>
    /\ Cardinality(CandidateIds(updated_words[Len(updated_words)].word)) = 1
    /\ used_sentences /= {}
    /\ DOMAIN output_sentences = used_sentences

\* the two vocabulary lists agree up to position j
AgreeUpTo(j) ==
    /\ j <= Len(vocabulary.words)
    /\ j <= Len(twin.words)
    /\ \A k \in 1..j : vocabulary.words[k] = twin.words[k]

C20_IrregularFormsSearched ==
    pc /= "build" =>
        \A lemma \in VocabularyWords :
            /\ IrregularForms(lemma) \subseteq DOMAIN all_variants
            /\ \A n \in 1..Len(Items) :
                  LET found == extract_words_from_text(Items[n].text)
                  IN (/\ in_length_bounds(Len(Items[n].text))
                      /\ found /= {}
                      /\ found \subseteq IrregularForms(lemma))
                        => ItemId(Items[n]) \in CandidateIds(lemma)

\* C21: for a lemma that ends in "ie", both implementations give the
\* progressive form with "ie" replaced by "ying".
C21_IeProgressive ==
    (pc = "expanded" /\ EndsWith(word, <<"i", "e">>)) =>
        LET ying == DropLast(word, 2) \o <<"y", "i", "n", "g">>
        IN ying \in variants /\ ying \in wf_variants

\* C22: for a word that is a key of the exception table, lemmatize_word
\* returns the table's value whatever the noun and the verb lookup return.
C22_ExceptionTableFirst ==
    (pc = "lemmatized" /\ word \in ExceptionKeys) =>
        lemmatized = ExceptionValue(word)

C22_Witness ==
    /\ pc = "lemmatized"
    /\ word = ground
    /\ verb_lemma = grind
    /\ noun_lemma = ground
    /\ lemmatized = ground

\* C23: for a word outside the exception table, lemmatize_word returns the
\* verb lemma when it differs from the word, has more than one character
\* and the noun lemma is the word or has at most 2 characters; otherwise
\* the noun lemma when it differs from the word; otherwise the verb lemma.
\* When both lemmas differ from the word and the noun lemma has more than
\* 2 characters, the noun lemma is returned.
C23_VerbOrNoun ==
    (pc = "lemmatized" /\ word \notin ExceptionKeys) =>
        LET n == noun_lemma
            v == verb_lemma
            prefer_verb == v /= word /\ Len(v) > 1 /\ (n = word \/ Len(n) <= 2)
        IN /\ prefer_verb => lemmatized = v
           /\ (~prefer_verb /\ n /= word) => lemmatized = n
           /\ (~prefer_verb /\ n = word) => lemmatized = v
           /\ (n /= word /\ v /= word /\ Len(n) > 2) => lemmatized = n

C23_Witness ==
    /\ pc = "lemmatized"
    /\ word = kings
    /\ noun_lemma = king
    /\ verb_lemma = <<"k", "i", "n">>
    /\ lemmatized = king

\* C25 as stated: "liv" and "did" are classified as numeric.
C25_Original ==
    (pc = "classified" /\ word \in {liv, did}) => numeric

\* the thirty strings the pattern of line 128 matches
RomanNumerals ==
    { <<"i">>, <<"i", "i">>, <<"i", "i", "i">>, <<"i", "v">>, <<"v">>, <<"v", "i">>,
      <<"v", "i", "i">>, <<"v", "i", "i", "i">>, <<"i", "x">>,
      <<"x">>, <<"x", "x">>, <<"x", "x", "x">>, <<"x", "l">>, <<"l">>, <<"l", "x">>,
      <<"l", "x", "x">>, <<"l", "x", "x", "x">>, <<"x", "c">>,
      <<"c">>, <<"c", "c">>, <<"c", "c", "c">>, <<"c", "d">>, <<"d">>, <<"d", "c">>,
      <<"d", "c", "c">>, <<"d", "c", "c", "c">>, <<"c", "m">>,
      <<"m">>, <<"m", "m">>, <<"m", "m", "m">> }

\* C25: a sequence of the letters i, v, x, l, c, d, m is classified as
\* numeric exactly when it is one of the thirty numerals of the pattern; the
\* words "liv" and "did" are not among them and are not classified as
\* numeric, the word "i" is.
C25_OnlyPatternNumerals ==
    (pc = "classified" /\ \A k \in 1..Len(word) : word[k] \in RomanLetters) =>
        /\ numeric <=> word \in RomanNumerals
        /\ word \in {liv, did} => ~numeric
        /\ word = <<"i">> => numeric

C25_Witness ==
    /\ pc = "classified"
    /\ word = liv
    /\ ~numeric

\* the words clean_text and split give for the first n verses, in order
RECURSIVE TokensOfVerses(_)
TokensOfVerses(n) ==
    IF n = 0 THEN <<>>
    ELSE TokensOfVerses(n - 1) \o split(clean_text(BibleItems(bible)[n].text))

RECURSIVE SumCounts(_)
SumCounts(counter) ==
    IF counter = <<>> THEN 0 ELSE Head(counter).count + SumCounts(Tail(counter))

NumericAmong(ws) == Cardinality({ k \in 1..Len(ws) : is_numeric_word(ws[k]) })

\* C24: in extract_words no word classified by is_numeric_word is handed to
\* lemmatize_word or counted, every such word is tallied in
\* numeric_words_skipped, and when the corpus has been processed the sum of
\* the counts plus numeric_words_skipped is the number of words clean_text
\* and split produced over all verses.
C24_CountsPlusSkipped ==
    pc \in {"words", "extracted"} =>
        LET seen == TokensOfVerses(verse_count)
            done == SubSeq(seen, 1, Len(seen) - Len(verse_words))
        IN /\ \A k \in 1..Len(lemmatize_calls) : ~is_numeric_word(lemmatize_calls[k])
           /\ SumCounts(word_counts) = Len(lemmatize_calls)
           /\ numeric_words_skipped = NumericAmong(done)
           /\ SumCounts(word_counts) + numeric_words_skipped = Len(done)
           /\ pc = "extracted" =>
                 SumCounts(word_counts) + numeric_words_skipped
                     = Len(TokensOfVerses(Len(BibleItems(bible))))

C24_Witness ==
    /\ pc = "extracted"
    /\ numeric_words_skipped = 2
    /\ SumCounts(word_counts) = 2
    /\ Len(word_counts) = 1

FixedOrder ==
    <<"extract_words.py", "filter_stopwords.py", "filter_proper_nouns.py", "finalize.py",
      "extract_sentences.py">>

\* C26: the steps are started in the fixed order extract_words,
\* filter_stopwords, filter_proper_nouns, finalize, then extract_sentences
\* only when requested; a step is started only after every earlier step
\* returned 0; the first step that returns another code is the last one
\* started, each step is started at most once, and the run then ends with
\* exit status 1 without the success message; the success message is
\* printed exactly when every step was started and returned 0.
C26_StepsInOrderUntilFailure ==
    LET n == Len(started)
        failed == { k \in 1..n : returncodes[k] /= 0 }
        wanted == IF with_sentences THEN 5 ELSE 4
    IN /\ Len(returncodes) = n
       /\ n <= wanted
       /\ started = SubSeq(FixedOrder, 1, n)
       /\ \A k \in 1..n : \A j \in 1..(k - 1) : returncodes[j] = 0
       /\ failed /= {} => /\ failed = {n}
                          /\ pc = "exited"
                          /\ exit_status = 1
                          /\ ~success_printed
       /\ success_printed <=> (pc = "exited" /\ n = wanted /\ failed = {})
       /\ success_printed => exit_status = 0
       /\ (pc = "exited" /\ version /= "") => (exit_status = 1 <=> failed /= {})

C26_Witness ==
    /\ pc = "exited"
    /\ exit_status = 1
    /\ with_sentences
    /\ Len(started) = 3
    /\ returncodes = <<0, 0, 1>>
    /\ ~success_printed

\* C27: when add_definitions returns, every word of the word list has an
\* entry in all_definitions or is in the list save_failed_words wrote, and
\* not both.
C27_DefinedOrSavedAsFailed ==
    pc = "returned" =>
        \A w \in Range(word_list) :
            (w \in DOMAIN all_definitions) /= (w \in Range(failed_words_file))

\* what merging the results of the batches in bs gives when they are taken
\* in the order of their index
RECURSIVE MergedInIndexOrder(_, _)
MergedInIndexOrder(bs, b) ==
    IF b = 0 THEN <<>>
    ELSE IF b \in bs /\ ~futures[b].raised
         THEN merge_results(MergedInIndexOrder(bs, b - 1), futures[b].results)
         ELSE MergedInIndexOrder(bs, b - 1)

FailedOf(bs) == UNION { Range(futures[b].failed) : b \in { c \in bs : ~futures[c].raised } }

NoRepeats(list) == \A j, k \in 1..Len(list) : j /= k => list[j] /= list[k]

C29_Merged ==
    (pc = "first_round" /\ NoRepeats(word_list)) =>
        /\ all_definitions = MergedInIndexOrder(collected, Len(futures))
        /\ Range(all_failed) = FailedOf(collected)
        /\ Len(all_failed) = Cardinality(FailedOf(collected))

C29_WorkerStep ==
    (\E b \in DOMAIN futures : RunBatch(b)) =>
        UNCHANGED <<all_definitions, all_failed, collected>>

\* C29: in the first round a worker's step changes neither all_definitions
\* nor all_failed, which only the coordinating thread's steps do; and for a
\* word list without repeats, whatever the order in which the futures
\* complete and are taken, all_definitions is what merging the batches'
\* results in index order gives and all_failed holds exactly the batches'
\* failed words.
C29_OrderIndependentMerge == []C29_Merged /\ [][C29_WorkerStep]_vars

C29_Witness ==
    /\ pc = "first_round"
    /\ NoRepeats(word_list)
    /\ Len(futures) = 2
    /\ collected = {1, 2}
    /\ Len(all_failed) = 2
    /\ all_failed[1] = BATCH_SIZE + 1
    /\ all_failed[2] = 1
    /\ DOMAIN all_definitions = 2..BATCH_SIZE

C28_Rounds ==
    /\ retry_round <= 3
    /\ \A sid \in DOMAIN submissions : submissions[sid] <= 3
    /\ (pc = "loop" /\ retry_round >= 1) => Flatten(batches) = failed_ids
    /\ pc \in {"loop", "collect"} =>
          \A sid \in DOMAIN all_translations :
              /\ sid \notin BatchIds(batches)
              /\ all_translations[sid] /= ""

C28_RoundStep ==
    /\ retry_round' /= retry_round =>
          /\ retry_round' = retry_round + 1
          /\ retry_round < 3
          /\ retry_round >= 1 => failed_ids /= <<>>
    /\ \A sid \in DOMAIN all_translations :
          /\ sid \in DOMAIN all_translations'
          /\ all_translations'[sid] = all_translations[sid]
          /\ submissions'[sid] = submissions[sid]

\* C28: the retry loop ends, after at most 3 rounds; a round begins only
\* when the round before reported a failed id, and its batches hold exactly
\* the ids that round reported failed, in that order; no sentence is
\* submitted more than 3 times; a sentence with a translation is in no later
\* batch, is not submitted again and keeps its translation.
C28_BoundedRetry == []C28_Rounds /\ [][C28_RoundStep]_vars /\ <>(pc = "done")

C28_Witness ==
    /\ pc = "done"
    /\ retry_round = 3
    /\ Len(missing_ids) = RETRY_BATCH_SIZE + 1
    /\ DOMAIN all_translations = 2..(RETRY_BATCH_SIZE + 1)
    /\ submissions[1] = 3
    /\ submissions[2] = 1
    /\ submissions[RETRY_BATCH_SIZE + 1] = 2

\* C30: in the output of the Hebrew pipeline every entry of the vocabulary
\* has at most 10 sentence ids, all distinct, and each of them is a key of
\* the sentence mapping.
C30_SentenceIdsAreKeys ==
    pc = "saved" =>
        \A k \in 1..Len(hebrew_vocabulary) :
            LET ids == hebrew_vocabulary[k].sentence_ids
            IN /\ Len(ids) <= 10
               /\ NoRepeats(ids)
               /\ \A n \in 1..Len(ids) : ids[n] \in DOMAIN hebrew_sentences

=============================================================================
